---- MODULE Spec2Model ----
(***************************************************************************)
(* Capture pipeline of src/be/camera_server.py: the session controller     *)
(* (start_camera / stop_camera), the capture worker (capture_loop) with    *)
(* its open / reopen recovery, the presence debouncer, the alert           *)
(* dispatcher (maybe_send_alert_photo), the latest-frame buffer and the     *)
(* stream readers (camera_stream / mjpeg_gen), the ROI store               *)
(* (load_roi_rel / save_roi_rel / set_roi / clear_roi) and the keys of     *)
(* the request boundary (require_edge_key, STREAM_TOKEN).                  *)
(*                                                                         *)
(* Granularity: one step per blocking call of the worker (thread start,    *)
(* open, read, transport call); everything a handler does between two      *)
(* blocking calls is part of the same step.  The teardown of the worker    *)
(* (the finally block) runs in the step that leaves the function.          *)
(* None is 0 for handles and camera ids, <<>> for the frame buffer and     *)
(* "none" for the last error.                                              *)
(***************************************************************************)
EXTENDS Integers, Sequences, FiniteSets, TLC

(* ------------------------------ bounds -------------------------------- *)
\* capture_loop threads launched over one run of the server
MaxWorkers == 2
\* frames processed by one session
MaxFrames == 3
\* last value of the wall clock (seconds)
MaxTime == 4
\* frames in a video file
FileLen == 2
\* launches in the single-session specifications
SoloLaunches == 1
\* tg_cooldown of the tenant that has one (seconds); the clock starts there
Cooldown == 2
\* frames processed by the session of the debouncer specification
LongFrames == 28
\* stream readers
MaxReaders == 1
\* chunks a stream reader emits
MaxChunks == 3
\* frames after which the first session of the restart specification is
\* stopped at the latest
RestartFrames == 1
\* MISSING_WINDOW of the ROI poll specification, and the frames its
\* session processes
PollWindow == 2
PollFrames == 61
\* the fields of a rectangle are multiples of 1 / RoiScale
RoiScale == 2
\* last modification time the ROI file can get
MaxMtime == 2
\* width and height of a frame, in pixels
FrameSide == 8

(* ------------------------- program constants -------------------------- *)
\* fail_read_streak that triggers a reconnect
FailReopen == 15
\* a rewind threshold that the reconnect threshold comes before
LoopRewindAfterReopen == FailReopen + 1

\* fail_read_streak that rewinds a looping video
LoopRewind == 2
\* thresholds on the mean of absent_hist, in percent
ALERT_THRESHOLD == 70
WARN_THRESHOLD == 40
\* defaults of MISSING_WINDOW and PRESENT_GRACE
DefaultWindow == 24
DefaultGrace == 10
\* processed frames between two looks at the ROI file
RoiPollEvery == 30
\* smallest side of a usable ROI, in pixels
MinRoiSide == 4

Workers == 1..MaxWorkers
Handles == 1..(MaxWorkers + 2)
Readers == 1..MaxReaders
NoError == "none"

VARIABLES
    \* configuration read from the environment at import
    ENABLE_YOLO, TG_TOKEN, MISSING_WINDOW, PRESENT_GRACE, ENABLE_CAPTURE,
    \* whether "import cv2" and "import numpy" succeeded
    cv2, np,
    \* the shared-secret keys, "" when unset
    EDGE_API_KEY, STREAM_TOKEN,
    \* table masjid: id_masjid -> [tg_chat_id, tg_cooldown]
    masjid,
    \* module globals
    running, cap, latest_jpeg, stream_ready, last_cap_error, alert_status,
    CUR, last_alert_ts_by_masjid,
    \* environment: time.time(), the VideoCapture objects not yet released,
    \* and the frame position of the object cap refers to
    clock, opened, hpos,
    \* capture_loop threads: control point and locals
    pc, loc,
    \* history: per worker what it has done (mine is the VideoCapture
    \* object it opened last, late counts what it did while the running
    \* flag was false since the last start, behind is "yes" once the mtime of the ROI file has
    \* changed since it last compared it and "polled" after the poll that
    \* followed), the last processed frame, and the notifications
    \* delivered
    obs, last_frame, sent,
    \* request boundary: the answer to the last request, and the stream
    \* readers (generators of mjpeg_gen) with the chunks they have emitted
    reply, rd,
    \* the latest-frame lock: its holder, and where each worker and each
    \* stream reader stands relative to its "with lock:" block
    lock, wl, rl,
    \* the file at ROI_PATH: whether it exists, its text and its mtime
    roi_file

cfgVars == <<ENABLE_YOLO, TG_TOKEN, MISSING_WINDOW, PRESENT_GRACE, masjid,
             EDGE_API_KEY, STREAM_TOKEN, ENABLE_CAPTURE, cv2, np>>
apiVars == <<reply, rd>>
lockVars == <<lock, wl, rl>>
vars == <<ENABLE_YOLO, TG_TOKEN, MISSING_WINDOW, PRESENT_GRACE, masjid,
          EDGE_API_KEY, STREAM_TOKEN, ENABLE_CAPTURE, cv2, np, lock, wl, rl, roi_file,
          running, cap, latest_jpeg, stream_ready, last_cap_error, alert_status,
          CUR, last_alert_ts_by_masjid, clock, opened, hpos, pc, loc, obs,
          last_frame, sent, reply, rd>>

(* ------------------------------ helpers ------------------------------- *)
RECURSIVE SumSeq(_)
SumSeq(s) == IF s = <<>> THEN 0 ELSE Head(s) + SumSeq(Tail(s))

Alive(w) == pc[w] \notin {"idle", "done"}

\* the VideoCapture object a successful open returns: one not in use
NewHandle == CHOOSE h \in Handles :
                 /\ h \notin opened /\ h # cap
                 /\ \A g \in Handles : (g \notin opened /\ g # cap) => h <= g

\* a release that leaves the device open
ReleaseNothing(c, o) == o

\* cap.release() in "if cap: cap.release()" and in the reconnect branches
Release(c, o) == o \ {c}

\* table camera: id_camera -> id_masjid
CameraMasjid(c) == c

NoTarget == [id_masjid |-> 0, chat_id |-> "", cooldown |-> 0]

\* the lookup without the test of the chat id
get_tg_target_any_chat(camera_id) ==
    IF camera_id = 0 \/ CameraMasjid(camera_id) \notin DOMAIN masjid
    THEN NoTarget
    ELSE LET m == CameraMasjid(camera_id) IN
         [id_masjid |-> m, chat_id |-> masjid[m].tg_chat_id,
          cooldown |-> masjid[m].tg_cooldown]

\* get_tg_target_by_camera_id, reached through "if camera_id:"
get_tg_target_by_camera_id(camera_id) ==
    IF camera_id = 0 \/ CameraMasjid(camera_id) \notin DOMAIN masjid
    THEN NoTarget
    ELSE LET m == CameraMasjid(camera_id) IN
         IF masjid[m].tg_chat_id = ""
         THEN NoTarget
         ELSE [id_masjid |-> m, chat_id |-> masjid[m].tg_chat_id,
               cooldown |-> masjid[m].tg_cooldown]

\* open_source under reopen_capture: the result the device outcome o gives
OpenResult(a, o) ==
    IF a.source # "webcam" /\ a.path = "" THEN "fail" ELSE o

(* ------------------------- presence debouncer ------------------------- *)
\* present_raw that looks at the detections whether or not a detector runs
present_raw_detector(d) == d = "hit"

present_raw_of(d) == IF ENABLE_YOLO THEN d = "hit" ELSE TRUE

missing_streak_of(ms, present_raw) == IF present_raw THEN 0 ELSE ms + 1

\* present without the grace period
present_no_grace(present_raw, ms) == present_raw

present_of(present_raw, ms) == present_raw \/ ms <= PRESENT_GRACE

\* a window that drops the new sample once it is full
PushSampleKeepsOldest(h, s) ==
    IF Len(h) >= MISSING_WINDOW THEN h ELSE Append(h, s)

\* absent_hist.append(..); if len(absent_hist) > MISSING_WINDOW: pop(0)
PushSample(h, s) ==
    LET a == Append(h, s) IN IF Len(a) > MISSING_WINDOW THEN Tail(a) ELSE a

\* the thresholds applied to the sum over MISSING_WINDOW, not over the
\* samples the window holds
status_of_full_window(h, present) ==
    IF Len(h) > 0
    THEN IF 100 * SumSeq(h) >= ALERT_THRESHOLD * MISSING_WINDOW THEN "ALERT"
         ELSE IF 100 * SumSeq(h) >= WARN_THRESHOLD * MISSING_WINDOW THEN "WARN"
         ELSE "NORMAL"
    ELSE IF present THEN "NORMAL" ELSE "ALERT"

\* avg_absent against the two thresholds
status_of(h, present) ==
    IF Len(h) > 0
    THEN IF 100 * SumSeq(h) >= ALERT_THRESHOLD * Len(h) THEN "ALERT"
         ELSE IF 100 * SumSeq(h) >= WARN_THRESHOLD * Len(h) THEN "WARN"
         ELSE "NORMAL"
    ELSE IF present THEN "NORMAL" ELSE "ALERT"

(* ------------------------------ ROI store ----------------------------- *)
\* A rectangle is <<x, y, w, h>> in units of 1 / RoiScale, None is <<>>.
\* The text of the file is a sequence of <<key, value>> members; a member
\* with another key than x, y, w, h stands for text that is not JSON.
NoRoi == <<>>
NoFile == [exists |-> FALSE, text |-> <<>>, mtime |-> 0]
RoiKeys == <<"x", "y", "w", "h">>

\* a dump that writes the members in another order than their names
model_dump_json_swapped(roi) ==
    << <<"x", roi[1]>>, <<"y", roi[2]>>, <<"w", roi[4]>>, <<"h", roi[3]>> >>

\* roi.model_dump_json()
model_dump_json(roi) ==
    << <<"x", roi[1]>>, <<"y", roi[2]>>, <<"w", roi[3]>>, <<"h", roi[4]>> >>

\* json.loads raises on text
JsonError(text) == \E i \in 1..Len(text) : \A k \in 1..4 : text[i][1] # RoiKeys[k]

HasKey(text, key) == \E i \in 1..Len(text) : text[i][1] = key

\* data[key] after json.loads: the last member with that key
JsonGet(text, key) ==
    LET i == CHOOSE j \in 1..Len(text) :
                 /\ text[j][1] = key
                 /\ \A m \in (j + 1)..Len(text) : text[m][1] # key
    IN text[i][2]

\* confloat(ge=0.0, le=1.0)
InUnit(v) == 0 <= v /\ v <= RoiScale

\* ROISchema(**data) raises: a field is missing or out of range
SchemaError(text) ==
    \E k \in 1..4 : ~HasKey(text, RoiKeys[k]) \/ ~InUnit(JsonGet(text, RoiKeys[k]))

\* load_roi_rel applied to the file f
load_roi_of(f) ==
    IF ~f.exists THEN NoRoi
    ELSE IF f.text = <<>> THEN NoRoi
    ELSE IF JsonError(f.text) THEN NoRoi
    ELSE IF SchemaError(f.text) THEN NoRoi
    ELSE [k \in 1..4 |-> JsonGet(f.text, RoiKeys[k])]

load_roi_rel == load_roi_of(roi_file)

\* an mtime that is still read after the file is gone
RoiMtimeOfGoneFile == roi_file.mtime

\* ROI_PATH.stat().st_mtime if ROI_PATH.exists() else 0.0
RoiMtime == IF roi_file.exists THEN roi_file.mtime ELSE 0

\* int(v * W) for v = num / RoiScale, clamped
Px(num, lo, hi) ==
    LET p == (num * FrameSide) \div RoiScale
    IN IF p < lo THEN lo ELSE IF p > hi THEN hi ELSE p

\* roi_rect_px: the rectangle in pixels, None if it is too small
roi_rect_px ==
    LET roi == load_roi_rel IN
    IF roi = NoRoi THEN NoRoi
    ELSE LET x1 == Px(roi[1], 0, FrameSide - 1)
             y1 == Px(roi[2], 0, FrameSide - 1)
             x2 == Px(roi[1] + roi[3], 1, FrameSide)
             y2 == Px(roi[2] + roi[4], 1, FrameSide)
         IN IF x2 - x1 < MinRoiSide \/ y2 - y1 < MinRoiSide
            THEN NoRoi
            ELSE <<x1, y1, x2, y2>>

(* ------------------------------- Init --------------------------------- *)
\* nobody holds the latest-frame lock
NoHolder == <<"free", 0>>

NoArgs == [source |-> "webcam", path |-> "", loop_video |-> FALSE, camera_id |-> 0]

InitLoc == [source |-> "webcam", path |-> "", loop_video |-> FALSE, camera_id |-> 0,
            fail_read_streak |-> 0, counter |-> 0, missing_streak |-> 0,
            absent_hist |-> <<>>, now |-> 0, roi |-> <<>>, roi_mtime |-> 0,
            last_status |-> "NORMAL", last_alert_ts |-> 0]

InitObs == [setup |-> <<>>, nfail |-> 0, lastev |-> "none", exit |-> "none",
            reopen_failed |-> FALSE, published |-> FALSE, tx |-> "none",
            dets |-> <<>>, lastpub |-> 0, mine |-> 0,
            late |-> [reads |-> 0, frames |-> 0, alerts |-> 0], behind |-> "no"]

\* no request answered yet
NoReply == [op |-> "none", code |-> 0, arg |-> NoArgs, roi |-> NoRoi]

\* the answer of the handler op to a request with parameters arg
Answer(op, code, arg) == [op |-> op, code |-> code, arg |-> arg, roi |-> NoRoi]

\* a stream reader: not connected, nothing emitted
InitReader == [pc |-> "off", out |-> <<>>]

\* the state after import, for the configurations in Cfgs
InitWith(Cfgs) ==
    /\ \E c \in Cfgs :
          /\ ENABLE_YOLO = c.yolo
          /\ TG_TOKEN = c.token
          /\ MISSING_WINDOW = c.window
          /\ PRESENT_GRACE = c.grace
          /\ masjid = c.masjid
          /\ EDGE_API_KEY = (IF "edge_key" \in DOMAIN c THEN c.edge_key ELSE "")
          /\ STREAM_TOKEN = (IF "stream_token" \in DOMAIN c THEN c.stream_token ELSE "")
          /\ ENABLE_CAPTURE = (IF "capture" \in DOMAIN c THEN c.capture ELSE TRUE)
          /\ cv2 = (IF "cv2" \in DOMAIN c THEN c.cv2 ELSE TRUE)
          /\ np = (IF "np" \in DOMAIN c THEN c.np ELSE TRUE)
    /\ running = FALSE
    /\ cap = 0
    /\ latest_jpeg = <<>>
    /\ stream_ready = FALSE
    /\ last_cap_error = NoError
    /\ alert_status = "present"
    /\ CUR = NoArgs
    /\ last_alert_ts_by_masjid = [m \in DOMAIN masjid |-> 0]
    /\ clock = Cooldown
    /\ opened = {}
    /\ hpos = 0
    /\ pc = [w \in Workers |-> "idle"]
    /\ loc = [w \in Workers |-> InitLoc]
    /\ obs = [w \in Workers |-> InitObs]
    /\ last_frame = [w |-> 0, status |-> "NORMAL", prev |-> "NORMAL", attempt |-> FALSE]
    /\ sent = <<>>
    /\ reply = NoReply
    /\ rd = [r \in Readers |-> InitReader]
    /\ lock = NoHolder
    /\ wl = [w \in Workers |-> "out"]
    /\ rl = [r \in Readers |-> [at |-> "out", buf |-> <<>>]]
    /\ roi_file = NoFile

(* ------------------------- session controller ------------------------- *)
\* the test of the running flag left out
AlreadyRunningNever == FALSE

\* line 1087: "if running"
AlreadyRunning == running

\* the locator test that forgets the ipcam source
MissingPathVideoOnly(p) == p.source = "video" /\ p.path = ""

\* line 1090: a source that needs a locator came without one
MissingPath(p) == p.source \in {"video", "ipcam"} /\ p.path = ""

\* POST /camera/start with query parameters p: 503 without capture or
\* OpenCV, "already running", the rejected request, or the launch of a
\* worker
start_camera(p, launches) ==
    /\ IF ~ENABLE_CAPTURE \/ ~cv2
       THEN /\ reply' = Answer("start", 503, p)
            /\ UNCHANGED <<running, CUR, stream_ready, last_cap_error, pc, loc, obs>>
       ELSE IF AlreadyRunning
       THEN /\ reply' = Answer("start", 200, p)
            /\ UNCHANGED <<running, CUR, stream_ready, last_cap_error, pc, loc, obs>>
       ELSE IF MissingPath(p)
       THEN /\ reply' = Answer("start", 400, p)
            /\ UNCHANGED <<running, CUR, stream_ready, last_cap_error, pc, loc, obs>>
       ELSE /\ \E w \in Workers :
                  /\ pc[w] = "idle"
                  /\ \A v \in Workers : pc[v] = "idle" => w <= v
                  /\ w <= launches
                  /\ pc' = [pc EXCEPT ![w] = "start"]
                  /\ loc' = [loc EXCEPT ![w] =
                                [InitLoc EXCEPT !.source = p.source,
                                                !.path = p.path,
                                                !.loop_video = p.loop_video,
                                                !.camera_id = p.camera_id]]
            /\ CUR' = p
            /\ stream_ready' = FALSE
            /\ last_cap_error' = NoError
            /\ running' = TRUE
            /\ obs' = [v \in Workers |-> [obs[v] EXCEPT !.late = InitObs.late]]
            /\ reply' = Answer("start", 200, p)
    /\ UNCHANGED <<cfgVars, lockVars, roi_file, cap, latest_jpeg, alert_status, last_alert_ts_by_masjid,
                   clock, opened, hpos, last_frame, sent, rd>>

\* a stop that also resets the alert flag
stop_camera_resets_alert ==
    /\ running' = FALSE
    /\ alert_status' = "present"
    /\ reply' = Answer("stop", 200, NoArgs)
    /\ UNCHANGED <<cfgVars, lockVars, roi_file, cap, latest_jpeg, stream_ready, last_cap_error,
                   CUR, last_alert_ts_by_masjid, clock, opened, hpos,
                   pc, loc, obs, last_frame, sent, rd>>

\* POST /camera/stop
stop_camera ==
    /\ running' = FALSE
    /\ reply' = Answer("stop", 200, NoArgs)
    /\ UNCHANGED <<cfgVars, lockVars, roi_file, cap, latest_jpeg, stream_ready, last_cap_error,
                   alert_status, CUR, last_alert_ts_by_masjid, clock, opened, hpos,
                   pc, loc, obs, last_frame, sent, rd>>

\* GET /camera/status: the fields it reports
camera_status ==
    [running |-> running, stream_ready |-> stream_ready,
     last_cap_error |-> last_cap_error, alert_status |-> alert_status,
     camera_id |-> CUR.camera_id, source |-> CUR.source, path |-> CUR.path,
     loop |-> CUR.loop_video, enable_yolo |-> ENABLE_YOLO]

\* time passes
Tick ==
    /\ clock < MaxTime
    /\ clock' = clock + 1
    /\ UNCHANGED <<cfgVars, lockVars, roi_file, apiVars, running, cap, latest_jpeg, stream_ready, last_cap_error,
                   alert_status, CUR, last_alert_ts_by_masjid, opened, hpos,
                   pc, loc, obs, last_frame, sent>>

(* --------------------------- capture worker --------------------------- *)
Leave(o, w, how) == [o EXCEPT ![w].exit = how]

\* obs[w].late after a step of w with so many capture reads, published
\* frames and dispatch attempts; the counts stop at two
Late(w, reads, frames, alerts) ==
    LET UpToTwo(n) == IF n > 2 THEN 2 ELSE n
    IN IF running THEN obs[w].late
       ELSE [reads |-> UpToTwo(obs[w].late.reads + reads),
             frames |-> UpToTwo(obs[w].late.frames + frames),
             alerts |-> UpToTwo(obs[w].late.alerts + alerts)]

\* GiveUp without its "return": the worker goes on into the loop
GiveUpGoesOn(w, c, msg, ev) ==
    /\ running' = running
    /\ last_cap_error' = msg
    /\ opened' = opened
    /\ stream_ready' = stream_ready
    /\ pc' = [pc EXCEPT ![w] = "top"]
    /\ obs' = [obs EXCEPT ![w].setup = @ \o ev]

\* the worker gives up before the loop: "running = False", the error text,
\* "return", and the finally block with cap = c
GiveUp(w, c, msg, ev) ==
    /\ running' = FALSE
    /\ last_cap_error' = msg
    /\ opened' = Release(c, opened)
    /\ stream_ready' = FALSE
    /\ pc' = [pc EXCEPT ![w] = "done"]
    /\ obs' = [obs EXCEPT ![w].setup = @ \o ev, ![w].exit = "gave_up",
                          ![w].late = Late(w, IF ev = <<"read_fail">> THEN 1 ELSE 0, 0, 0)]

\* an early return that leaves the error text out
GiveUpEarlySilent(w, msg) ==
    /\ running' = FALSE
    /\ last_cap_error' = NoError
    /\ stream_ready' = FALSE
    /\ pc' = [pc EXCEPT ![w] = "done"]
    /\ obs' = [obs EXCEPT ![w].exit = "gave_up"]
    /\ UNCHANGED opened

\* the worker returns before its try block: no finally block runs
GiveUpEarly(w, msg) ==
    /\ running' = FALSE
    /\ last_cap_error' = msg
    /\ stream_ready' = FALSE
    /\ pc' = [pc EXCEPT ![w] = "done"]
    /\ obs' = [obs EXCEPT ![w].exit = "gave_up"]
    /\ UNCHANGED opened

\* capture_loop up to the first open: the reset of the stream state, the
\* tests of ENABLE_CAPTURE and of the libraries, and ensure_model, whose
\* outcome is m
LoopEnter(w, m) ==
    /\ pc[w] = "start"
    /\ IF ~ENABLE_CAPTURE
       THEN GiveUpEarly(w, "Capture disabled (ENABLE_CAPTURE=false)")
       ELSE IF ~cv2 \/ ~np
       THEN GiveUpEarly(w, "cv2/numpy tidak tersedia")
       ELSE IF ENABLE_YOLO /\ m = "fail"
       THEN GiveUp(w, cap, "YOLO init gagal", <<>>)
       ELSE /\ pc' = [pc EXCEPT ![w] = "open0"]
            /\ last_cap_error' = NoError
            /\ stream_ready' = FALSE
            /\ UNCHANGED <<running, opened, obs>>
    /\ UNCHANGED <<cfgVars, lockVars, roi_file, apiVars, cap, latest_jpeg, alert_status, CUR,
                   last_alert_ts_by_masjid, clock, hpos, loc, last_frame, sent>>

\* "cap = reopen_capture(..)" before the first frame, with device outcome o
OpenFirst(w, o) ==
    /\ pc[w] = "open0"
    /\ IF OpenResult(loc[w], o) = "ok"
       THEN /\ cap' = NewHandle
            /\ opened' = opened \cup {NewHandle}
            /\ hpos' = 0
            /\ pc' = [pc EXCEPT ![w] = "read0"]
            /\ obs' = [obs EXCEPT ![w].setup = Append(@, "open_ok"),
                                  ![w].mine = NewHandle]
            /\ UNCHANGED <<running, last_cap_error, stream_ready>>
       ELSE /\ cap' = 0
            /\ GiveUp(w, 0, "Gagal membuka kamera/capture", <<"open_fail">>)
            /\ UNCHANGED hpos
    /\ UNCHANGED <<cfgVars, lockVars, roi_file, apiVars, latest_jpeg, alert_status, CUR, last_alert_ts_by_masjid,
                   clock, loc, last_frame, sent>>

\* what cap.read() returns to worker w when the device would answer r:
\* reading None raises, a released object and the end of a file fail
ReadResult(w, r) ==
    IF cap = 0 THEN "raise"
    ELSE IF cap \notin opened THEN "fail"
    ELSE IF loc[w].source = "video" /\ hpos >= FileLen THEN "fail"
    ELSE r

\* the position after a frame was read (only a file has one)
Advance(w) == IF loc[w].source = "video" THEN hpos + 1 ELSE hpos

\* the locals set between the first frame and the loop
EnterLoop(w) == [loc EXCEPT ![w].absent_hist = <<>>, ![w].missing_streak = 0,
                            ![w].counter = 0, ![w].fail_read_streak = 0,
                            ![w].roi = roi_rect_px, ![w].roi_mtime = RoiMtime]

\* the worker leaves on an exception: only the finally block runs
Raised(w) ==
    /\ opened' = Release(cap, opened)
    /\ stream_ready' = FALSE
    /\ pc' = [pc EXCEPT ![w] = "done"]
    /\ obs' = [obs EXCEPT ![w].exit = "error", ![w].late = Late(w, 1, 0, 0)]

\* "ok0, frame0 = cap.read()" after the first open
FirstRead(w, r) ==
    /\ pc[w] = "read0"
    /\ CASE ReadResult(w, r) = "raise" ->
               /\ Raised(w)
               /\ UNCHANGED <<cap, hpos, loc>>
         [] ReadResult(w, r) = "ok" ->
               /\ hpos' = Advance(w)
               /\ loc' = EnterLoop(w)
               /\ pc' = [pc EXCEPT ![w] = "top"]
               /\ obs' = [obs EXCEPT ![w].setup = Append(@, "read_ok"),
                                     ![w].late = Late(w, 1, 0, 0)]
               /\ UNCHANGED <<cap, opened, stream_ready>>
         [] OTHER ->
               /\ opened' = Release(cap, opened)
               /\ pc' = [pc EXCEPT ![w] = "reopen0"]
               /\ obs' = [obs EXCEPT ![w].setup = @ \o <<"read_fail", "release">>,
                                     ![w].late = Late(w, 1, 0, 0)]
               /\ UNCHANGED <<cap, hpos, loc, stream_ready>>
    /\ UNCHANGED <<cfgVars, lockVars, roi_file, apiVars, running, latest_jpeg, last_cap_error, alert_status, CUR,
                   last_alert_ts_by_masjid, clock, last_frame, sent>>

\* "cap = reopen_capture(..)" after the failed first read
ReopenFirst(w, o) ==
    /\ pc[w] = "reopen0"
    /\ IF OpenResult(loc[w], o) = "ok"
       THEN /\ cap' = NewHandle
            /\ opened' = opened \cup {NewHandle}
            /\ hpos' = 0
            /\ pc' = [pc EXCEPT ![w] = "read0b"]
            /\ obs' = [obs EXCEPT ![w].setup = Append(@, "open_ok"),
                                  ![w].mine = NewHandle]
            /\ UNCHANGED <<running, last_cap_error, stream_ready>>
       ELSE /\ cap' = 0
            /\ GiveUp(w, 0, "Gagal membuka kamera/capture setelah retry pertama",
                      <<"open_fail">>)
            /\ UNCHANGED hpos
    /\ UNCHANGED <<cfgVars, lockVars, roi_file, apiVars, latest_jpeg, alert_status, CUR, last_alert_ts_by_masjid,
                   clock, loc, last_frame, sent>>

\* the second "ok0, frame0 = cap.read()"
FirstReadRetry(w, r) ==
    /\ pc[w] = "read0b"
    /\ CASE ReadResult(w, r) = "raise" ->
               /\ Raised(w)
               /\ UNCHANGED <<cap, hpos, loc, running, last_cap_error>>
         [] ReadResult(w, r) = "ok" ->
               /\ hpos' = Advance(w)
               /\ loc' = EnterLoop(w)
               /\ pc' = [pc EXCEPT ![w] = "top"]
               /\ obs' = [obs EXCEPT ![w].setup = Append(@, "read_ok"),
                                     ![w].late = Late(w, 1, 0, 0)]
               /\ UNCHANGED <<cap, opened, stream_ready, running, last_cap_error>>
         [] OTHER ->
               /\ GiveUp(w, cap, "Tidak bisa membaca frame pertama", <<"read_fail">>)
               /\ UNCHANGED <<cap, hpos, loc>>
    /\ UNCHANGED <<cfgVars, lockVars, roi_file, apiVars, latest_jpeg, alert_status, CUR, last_alert_ts_by_masjid,
                   clock, last_frame, sent>>

\* "while running:" -- either on to the blocking read or out through finally
LoopTop(w) ==
    /\ pc[w] = "top"
    /\ IF running
       THEN /\ pc' = [pc EXCEPT ![w] = "read"]
            /\ UNCHANGED <<opened, stream_ready, obs>>
       ELSE /\ opened' = Release(cap, opened)
            /\ stream_ready' = FALSE
            /\ pc' = [pc EXCEPT ![w] = "done"]
            /\ obs' = Leave(obs, w, "stopped")
    /\ UNCHANGED <<cfgVars, lockVars, roi_file, apiVars, running, cap, latest_jpeg, last_cap_error, alert_status,
                   CUR, last_alert_ts_by_masjid, clock, hpos, loc, last_frame, sent>>

\* NeedsRewind one failure late
NeedsRewindLate(a, streak) ==
    a.source = "video" /\ a.loop_video /\ streak >= LoopRewind + 1

\* line 902: a looping video that stopped delivering is at its end
NeedsRewind(a, streak) ==
    a.source = "video" /\ a.loop_video /\ streak >= LoopRewind

\* NeedsReopen one failure early
NeedsReopenEarly(streak) == streak >= FailReopen - 1

\* line 909: too many failed reads in a row
NeedsReopen(streak) == streak >= FailReopen

\* consecutive failed reads of w, counted from its last successful read,
\* rewind or reconnect (history, independent of fail_read_streak)
FailRun(w) ==
    IF obs[w].lastev \in {"fail"} THEN obs[w].nfail + 1 ELSE 1

\* a failed read that the debouncer takes for an absent sample
FailedReadAbsent(L, streak) ==
    [L EXCEPT !.fail_read_streak = streak, !.missing_streak = @ + 1,
              !.absent_hist = PushSample(@, 1)]

\* lines 898-924: the locals after a failed read, "continue" included
FailedRead(L, streak) == [L EXCEPT !.fail_read_streak = streak]

\* cap.read() raised inside the loop: cap is None
CaptureReadNone(w) ==
    /\ pc[w] = "read"
    /\ cap = 0
    /\ Raised(w)
    /\ UNCHANGED <<cfgVars, lockVars, roi_file, apiVars, running, cap, latest_jpeg, last_cap_error, alert_status,
                   CUR, last_alert_ts_by_masjid, clock, hpos, loc, last_frame, sent>>

\* "if not ok:" -- the failed read and its retry branch; o is the outcome
\* of the device if the branch reconnects
CaptureReadFails(w, r, o) ==
    LET streak == loc[w].fail_read_streak + 1 IN
    /\ pc[w] = "read"
    /\ ReadResult(w, r) = "fail"
    /\ pc' = [pc EXCEPT ![w] = "top"]
    /\ CASE NeedsRewind(loc[w], streak) ->
               /\ hpos' = 0
               /\ loc' = [loc EXCEPT ![w] = FailedRead(@, 0)]
               /\ obs' = [obs EXCEPT ![w].lastev = "rewind", ![w].nfail = FailRun(w),
                                     ![w].late = Late(w, 1, 0, 0)]
               /\ UNCHANGED <<cap, opened, last_cap_error>>
         [] ~NeedsRewind(loc[w], streak) /\ NeedsReopen(streak)
                 /\ OpenResult(loc[w], o) = "ok" ->
               /\ cap' = NewHandle
               /\ opened' = Release(cap, opened) \cup {NewHandle}
               /\ hpos' = 0
               /\ loc' = [loc EXCEPT ![w] = FailedRead(@, 0)]
               /\ obs' = [obs EXCEPT ![w].lastev = "reopen_ok", ![w].nfail = FailRun(w),
                                     ![w].reopen_failed = FALSE, ![w].mine = NewHandle,
                                     ![w].late = Late(w, 1, 0, 0)]
               /\ UNCHANGED last_cap_error
         [] ~NeedsRewind(loc[w], streak) /\ NeedsReopen(streak)
                 /\ OpenResult(loc[w], o) # "ok" ->
               /\ cap' = 0
               /\ opened' = Release(cap, opened)
               /\ last_cap_error' = "Reconnect gagal: cap is None"
               /\ loc' = [loc EXCEPT ![w] = FailedRead(@, 0)]
               /\ obs' = [obs EXCEPT ![w].lastev = "reopen_fail", ![w].nfail = FailRun(w),
                                     ![w].reopen_failed = TRUE,
                                     ![w].late = Late(w, 1, 0, 0)]
               /\ UNCHANGED hpos
         [] OTHER ->
               /\ loc' = [loc EXCEPT ![w] = FailedRead(@, streak)]
               /\ obs' = [obs EXCEPT ![w].lastev = "fail", ![w].nfail = FailRun(w),
                                     ![w].late = Late(w, 1, 0, 0)]
               /\ UNCHANGED <<cap, opened, hpos, last_cap_error>>
    /\ UNCHANGED <<cfgVars, lockVars, roi_file, apiVars, running, latest_jpeg, stream_ready, alert_status, CUR,
                   last_alert_ts_by_masjid, clock, last_frame, sent>>

(* --------------------------- alert dispatcher ------------------------- *)
\* AlertEdge without the comparison with the previous flag (level-triggered)
AlertLevel(status_str, old_alert) == TG_TOKEN /\ status_str = "ALERT"

\* line 962: the condition under which capture_loop calls maybe_send_alert_photo
AlertEdge(status_str, old_alert) ==
    TG_TOKEN /\ status_str = "ALERT" /\ old_alert # "missing"

\* line 636: the send is suppressed
InCooldown(cooldown, now, last_ts) == cooldown > 0 /\ (now - last_ts) < cooldown

\* LastSent that does not look at the answer of the transport
LastSentAlways(tbl, mid, res, now) == [tbl EXCEPT ![mid] = now]

\* lines 644-645: the cooldown table after the transport answered res
LastSent(tbl, mid, res, now) ==
    IF res = "ok" THEN [tbl EXCEPT ![mid] = now] ELSE tbl

\* the flag that WARN also sets
alert_flag_warn(status_str) == IF status_str = "NORMAL" THEN "present" ELSE "missing"

\* line 960: the binary flag of a status
alert_flag_of(status_str) == IF status_str = "ALERT" THEN "missing" ELSE "present"

\* frames a session processes: enough to fill the default window, or to
\* pass two polls of the ROI file
FrameBudget == IF MISSING_WINDOW = DefaultWindow THEN LongFrames
               ELSE IF MISSING_WINDOW = PollWindow THEN PollFrames
               ELSE MaxFrames

\* history: obs[w].behind after processed frame n
Behind(w, n) ==
    IF n % RoiPollEvery = 0 /\ obs[w].behind = "yes" THEN "polled" ELSE obs[w].behind

\* the poll that reloads whether or not the mtime moved
RoiAfterPollAlways(L, n) ==
    IF n % RoiPollEvery = 0
    THEN [roi |-> roi_rect_px, roi_mtime |-> RoiMtime]
    ELSE [roi |-> L.roi, roi_mtime |-> L.roi_mtime]

\* lines 930-934: roi and roi_mtime after the poll of processed frame n
RoiAfterPoll(L, n) ==
    IF n % RoiPollEvery = 0 /\ RoiMtime # L.roi_mtime
    THEN [roi |-> roi_rect_px, roi_mtime |-> RoiMtime]
    ELSE [roi |-> L.roi, roi_mtime |-> L.roi_mtime]

\* the last k elements of s
LastN(s, k) == IF Len(s) <= k THEN s ELSE SubSeq(s, Len(s) - k + 1, Len(s))

\* the first frame of the session goes into the buffer instead
PublishFirstFrame(w, n) ==
    /\ latest_jpeg' = <<w, 1>>
    /\ stream_ready' = TRUE
    /\ last_cap_error' = NoError

\* lines 968-974: the encoded frame goes into the buffer under the lock
Publish(w, n) ==
    /\ latest_jpeg' = <<w, n>>
    /\ stream_ready' = TRUE
    /\ last_cap_error' = NoError

\* a successful read: the frame is counted, debounced, may start a
\* notification, and is published unless the transport call is pending.
\* d is what the detector returns on the frame.
CaptureReadFrame(w, r, d) ==
    LET L == loc[w]
        n == L.counter + 1
        present_raw == present_raw_of(d)
        ms == missing_streak_of(L.missing_streak, present_raw)
        present == present_of(present_raw, ms)
        h == PushSample(L.absent_hist, IF present THEN 0 ELSE 1)
        status_str == status_of(h, present)
        old_alert == alert_status
        attempt == AlertEdge(status_str, old_alert)
        target == get_tg_target_by_camera_id(L.camera_id)
        polled == RoiAfterPoll(L, n)
        calls == /\ attempt
                 /\ target # NoTarget
                 /\ ~InCooldown(target.cooldown, clock,
                                last_alert_ts_by_masjid[target.id_masjid])
    IN
    /\ pc[w] = "read"
    /\ ReadResult(w, r) = "ok"
    /\ L.counter < FrameBudget
    /\ hpos' = Advance(w)
    /\ IF ENABLE_YOLO /\ d = "raise"
       THEN /\ Raised(w)
            /\ loc' = [loc EXCEPT ![w].fail_read_streak = 0, ![w].counter = n,
                                  ![w].roi = polled.roi,
                                  ![w].roi_mtime = polled.roi_mtime]
            /\ UNCHANGED <<alert_status, latest_jpeg, last_cap_error, last_frame>>
       ELSE /\ alert_status' = alert_flag_of(status_str)
            /\ last_frame' = [w |-> w, status |-> status_str,
                              prev |-> last_frame.status, attempt |-> attempt]
            /\ loc' = [loc EXCEPT ![w].fail_read_streak = 0, ![w].counter = n,
                                  ![w].roi = polled.roi,
                                  ![w].roi_mtime = polled.roi_mtime,
                                  ![w].missing_streak = ms, ![w].absent_hist = h,
                                  ![w].now = IF calls THEN clock ELSE @]
            /\ UNCHANGED opened
            /\ IF calls
               THEN /\ pc' = [pc EXCEPT ![w] = "tx"]
                    /\ obs' = [obs EXCEPT ![w].lastev = "ok", ![w].nfail = 0,
                                          ![w].tx = "pending",
                                          ![w].late = Late(w, 1, 0, 1),
                                          ![w].behind = Behind(w, n),
                                          ![w].dets = LastN(Append(@, d), PRESENT_GRACE + 1)]
                    /\ UNCHANGED <<latest_jpeg, stream_ready, last_cap_error>>
               ELSE /\ pc' = [pc EXCEPT ![w] = "top"]
                    /\ obs' = [obs EXCEPT ![w].lastev = "ok", ![w].nfail = 0,
                                          ![w].published = TRUE, ![w].lastpub = n,
                                          ![w].late =
                                              Late(w, 1, 1, IF attempt THEN 1 ELSE 0),
                                          ![w].behind = Behind(w, n),
                                          ![w].dets = LastN(Append(@, d), PRESENT_GRACE + 1)]
                    /\ Publish(w, n)
    /\ UNCHANGED <<cfgVars, lockVars, roi_file, apiVars, running, cap, CUR, last_alert_ts_by_masjid, clock, sent>>

\* tg_send_photo returns or raises (res), then the rest of the iteration
Transport(w, res) ==
    LET mid == get_tg_target_by_camera_id(loc[w].camera_id).id_masjid IN
    /\ pc[w] = "tx"
    /\ IF res = "raise"
       THEN /\ opened' = Release(cap, opened)
            /\ stream_ready' = FALSE
            /\ pc' = [pc EXCEPT ![w] = "done"]
            /\ obs' = [obs EXCEPT ![w].exit = "error", ![w].tx = res]
            /\ UNCHANGED <<latest_jpeg, last_cap_error, last_alert_ts_by_masjid, sent>>
       ELSE /\ last_alert_ts_by_masjid' =
                   LastSent(last_alert_ts_by_masjid, mid, res, loc[w].now)
            /\ sent' = IF res = "ok"
                       THEN Append(sent, [mid |-> mid, ts |-> loc[w].now])
                       ELSE sent
            /\ Publish(w, loc[w].counter)
            /\ pc' = [pc EXCEPT ![w] = "top"]
            /\ obs' = [obs EXCEPT ![w].published = TRUE, ![w].tx = res,
                                  ![w].lastpub = loc[w].counter,
                                  ![w].late = Late(w, 0, 1, 0)]
            /\ UNCHANGED opened
    /\ UNCHANGED <<cfgVars, lockVars, roi_file, apiVars, running, cap, alert_status, CUR, clock, hpos, loc,
                   last_frame>>

(* --------------------------- stream readers --------------------------- *)
\* the readiness test that lets every request through
StreamNotReadyNever == FALSE

\* line 1144: no frame of the session has been published yet
StreamNotReady == ~stream_ready

\* GET /camera/stream for reader r (STREAM_TOKEN unset or matched): 409
\* without a session, 425 before the first frame, else the generator starts
camera_stream(r) ==
    /\ rd[r].pc = "off"
    /\ IF ~running
       THEN /\ reply' = Answer("stream", 409, NoArgs)
            /\ rd' = rd
       ELSE IF StreamNotReady
       THEN /\ reply' = Answer("stream", 425, NoArgs)
            /\ rd' = rd
       ELSE /\ reply' = Answer("stream", 200, NoArgs)
            /\ rd' = [rd EXCEPT ![r].pc = "on"]
    /\ UNCHANGED <<cfgVars, lockVars, roi_file, running, cap, latest_jpeg, stream_ready, last_cap_error,
                   alert_status, CUR, last_alert_ts_by_masjid, clock, opened, hpos,
                   pc, loc, obs, last_frame, sent>>

\* one round of the loop of mjpeg_gen for reader r: the buffer is read
\* under the lock and, if there is one, emitted as a chunk
mjpeg_gen(r) ==
    LET buf == latest_jpeg IN
    /\ rd[r].pc = "on"
    /\ Len(rd[r].out) < MaxChunks
    /\ rd' = IF buf # <<>> THEN [rd EXCEPT ![r].out = Append(@, buf)] ELSE rd
    /\ UNCHANGED <<cfgVars, lockVars, roi_file, running, cap, latest_jpeg, stream_ready, last_cap_error,
                   alert_status, CUR, last_alert_ts_by_masjid, clock, opened, hpos,
                   pc, loc, obs, last_frame, sent, reply>>

(* --------------------------- request boundary ------------------------- *)
\* A request q carries bearer (TRUE for a valid Authorization header),
\* edge_key (the X-Edge-Key header, "" without one) and token (the query
\* parameter of the stream, "" without one).

\* require_edge_key raises 401
EdgeKeyRefused(q) == EDGE_API_KEY # "" /\ q.edge_key # EDGE_API_KEY

\* line 1138: the stream token is set and the request has another
StreamTokenRefused(q) == STREAM_TOKEN # "" /\ q.token # STREAM_TOKEN

\* HTTPException(401): the handler ends before it touches anything
Refuse(op, arg) ==
    /\ reply' = Answer(op, 401, arg)
    /\ UNCHANGED <<cfgVars, lockVars, roi_file, running, cap, latest_jpeg, stream_ready,
                   last_cap_error, alert_status, CUR, last_alert_ts_by_masjid, clock,
                   opened, hpos, pc, loc, obs, last_frame, sent, rd>>

\* POST /camera/start as the route runs it: require_edge_key, then the body
post_camera_start(q, p, launches) ==
    IF EdgeKeyRefused(q) THEN Refuse("start", p) ELSE start_camera(p, launches)

\* POST /camera/stop as the route runs it
post_camera_stop(q) ==
    IF EdgeKeyRefused(q) THEN Refuse("stop", NoArgs) ELSE stop_camera

\* GET /camera/stream as the route runs it, for reader r
get_camera_stream(q, r) ==
    IF StreamTokenRefused(q) THEN Refuse("stream", NoArgs) ELSE camera_stream(r)

(* -------------------------- latest-frame lock ------------------------- *)
\* The iteration of capture_loop and the round of mjpeg_gen at the
\* granularity of "with lock:".  wl[w] is "out" outside the iteration,
\* "want" at line 970, "in" inside the block (971-974), "sleep" at line
\* 976; rl[r] is at "out" at the top of the round, "in" inside the block
\* (994), "emit" while the chunk is handed to the client (995-999) and
\* "sleep" at line 1000.
WorkerHolds(w) == <<"worker", w>>
ReaderHolds(r) == <<"reader", r>>

\* a block that does not give the lock back
LockKept(holder) == holder

\* the end of a "with lock:" block
LockReleased(holder) == NoHolder

\* lines 897-968 of an iteration whose read succeeds: the frame is
\* counted, debounced and encoded (no notification target is configured)
FrameProcessed(w, d) ==
    LET L == loc[w]
        n == L.counter + 1
        present_raw == present_raw_of(d)
        ms == missing_streak_of(L.missing_streak, present_raw)
        present == present_of(present_raw, ms)
        h == PushSample(L.absent_hist, IF present THEN 0 ELSE 1)
        status_str == status_of(h, present)
        polled == RoiAfterPoll(L, n)
    IN
    /\ pc[w] = "read"
    /\ ReadResult(w, "ok") = "ok"
    /\ L.counter < FrameBudget
    /\ ~AlertEdge(status_str, alert_status)
    /\ hpos' = Advance(w)
    /\ alert_status' = alert_flag_of(status_str)
    /\ last_frame' = [w |-> w, status |-> status_str, prev |-> last_frame.status,
                      attempt |-> FALSE]
    /\ loc' = [loc EXCEPT ![w].fail_read_streak = 0, ![w].counter = n,
                          ![w].roi = polled.roi, ![w].roi_mtime = polled.roi_mtime,
                          ![w].missing_streak = ms, ![w].absent_hist = h]
    /\ obs' = [obs EXCEPT ![w].lastev = "ok", ![w].nfail = 0,
                          ![w].late = Late(w, 1, 0, 0),
                          ![w].behind = Behind(w, n),
                          ![w].dets = LastN(Append(@, d), PRESENT_GRACE + 1)]
    /\ pc' = [pc EXCEPT ![w] = "store"]
    /\ wl' = [wl EXCEPT ![w] = "want"]
    /\ UNCHANGED <<cfgVars, apiVars, lock, rl, roi_file, running, cap, latest_jpeg,
                   stream_ready, last_cap_error, CUR, last_alert_ts_by_masjid, clock,
                   opened, sent>>

\* line 970: the worker enters "with lock:"
LockAcquire(w) ==
    /\ pc[w] = "store"
    /\ wl[w] = "want"
    /\ lock = NoHolder
    /\ lock' = WorkerHolds(w)
    /\ wl' = [wl EXCEPT ![w] = "in"]
    /\ UNCHANGED <<cfgVars, apiVars, rl, roi_file, running, cap, latest_jpeg, stream_ready,
                   last_cap_error, alert_status, CUR, last_alert_ts_by_masjid, clock,
                   opened, hpos, pc, loc, obs, last_frame, sent>>

\* lines 971-974 and the end of the block
StoreLocked(w) ==
    /\ wl[w] = "in"
    /\ Publish(w, loc[w].counter)
    /\ obs' = [obs EXCEPT ![w].published = TRUE, ![w].lastpub = loc[w].counter,
                          ![w].late = Late(w, 0, 1, 0)]
    /\ lock' = LockReleased(lock)
    /\ wl' = [wl EXCEPT ![w] = "sleep"]
    /\ UNCHANGED <<cfgVars, apiVars, rl, roi_file, running, cap, alert_status, CUR,
                   last_alert_ts_by_masjid, clock, opened, hpos, pc, loc, last_frame,
                   sent>>

\* line 976: time.sleep(0.01), then back to "while running:"
IterationSleep(w) ==
    /\ wl[w] = "sleep"
    /\ wl' = [wl EXCEPT ![w] = "out"]
    /\ pc' = [pc EXCEPT ![w] = "top"]
    /\ UNCHANGED <<cfgVars, apiVars, lock, rl, roi_file, running, cap, latest_jpeg,
                   stream_ready, last_cap_error, alert_status, CUR,
                   last_alert_ts_by_masjid, clock, opened, hpos, loc, obs, last_frame,
                   sent>>

\* line 993: the generator of reader r enters "with lock:"
ReaderAcquire(r) ==
    /\ rd[r].pc = "on"
    /\ rl[r].at = "out"
    /\ Len(rd[r].out) < MaxChunks
    /\ lock = NoHolder
    /\ lock' = ReaderHolds(r)
    /\ rl' = [rl EXCEPT ![r].at = "in"]
    /\ UNCHANGED <<cfgVars, apiVars, wl, roi_file, running, cap, latest_jpeg, stream_ready,
                   last_cap_error, alert_status, CUR, last_alert_ts_by_masjid, clock,
                   opened, hpos, pc, loc, obs, last_frame, sent>>

\* line 994 and the end of the block: "buf = latest_jpeg"
ReaderCopy(r) ==
    /\ rl[r].at = "in"
    /\ rl' = [rl EXCEPT ![r].buf = latest_jpeg,
                        ![r].at = IF latest_jpeg # <<>> THEN "emit" ELSE "sleep"]
    /\ lock' = LockReleased(lock)
    /\ UNCHANGED <<cfgVars, apiVars, wl, roi_file, running, cap, latest_jpeg, stream_ready,
                   last_cap_error, alert_status, CUR, last_alert_ts_by_masjid, clock,
                   opened, hpos, pc, loc, obs, last_frame, sent>>

\* lines 995-999: the client takes the chunk
ReaderYield(r) ==
    /\ rl[r].at = "emit"
    /\ rd' = [rd EXCEPT ![r].out = Append(@, rl[r].buf)]
    /\ rl' = [rl EXCEPT ![r].at = "sleep"]
    /\ UNCHANGED <<cfgVars, lock, wl, roi_file, running, cap, latest_jpeg, stream_ready,
                   last_cap_error, alert_status, CUR, last_alert_ts_by_masjid, clock,
                   opened, hpos, pc, loc, obs, last_frame, sent, reply>>

\* line 1000: time.sleep(0.02), then the next round
ReaderSleep(r) ==
    /\ rl[r].at = "sleep"
    /\ rl' = [rl EXCEPT ![r].at = "out"]
    /\ UNCHANGED <<cfgVars, apiVars, lock, wl, roi_file, running, cap, latest_jpeg,
                   stream_ready, last_cap_error, alert_status, CUR,
                   last_alert_ts_by_masjid, clock, opened, hpos, pc, loc, obs,
                   last_frame, sent>>

(* ---------------------------- ROI endpoints --------------------------- *)
\* the answer of an ROI endpoint: roi is the body of the request for
\* set_roi and the rectangle returned for get_roi
RoiAnswer(op, code, roi) == [op |-> op, code |-> code, arg |-> NoArgs, roi |-> roi]

\* the instants a write can stamp on the file
WriteTimes == {t \in 1..MaxMtime : t >= roi_file.mtime}

\* history: obs once the file has become f; a worker inside its loop
\* falls behind when the mtime of the file changes
Touched(f) ==
    [w \in Workers |->
        [obs[w] EXCEPT !.behind =
            IF /\ pc[w] \in {"top", "read", "tx", "store"}
               /\ (IF f.exists THEN f.mtime ELSE 0) # RoiMtime
            THEN "yes" ELSE @]]

\* the test of set_roi without the two sums
RoiRejectedSizeOnly(roi) == roi[3] <= 0 \/ roi[4] <= 0

\* lines 519-522: the rectangles set_roi answers with 400
RoiRejected(roi) ==
    \/ roi[3] <= 0 \/ roi[4] <= 0
    \/ roi[1] + roi[3] > RoiScale \/ roi[2] + roi[4] > RoiScale

\* save_roi_rel at instant t (the write succeeds)
save_roi_rel(roi, t) == [exists |-> TRUE, text |-> model_dump_json(roi), mtime |-> t]

\* an unlink that leaves the file
UnlinkKeeps(f) == f

\* ROI_PATH.unlink(missing_ok=True) (the unlink succeeds)
Unlink(f) == [f EXCEPT !.exists = FALSE, !.text = <<>>]

\* POST /roi with body roi, at instant t: 422 from the field constraints
\* of ROISchema, 400 from the handler, else the rectangle is saved
set_roi(roi, t) ==
    /\ t \in WriteTimes
    /\ IF \E k \in 1..4 : ~InUnit(roi[k])
       THEN /\ reply' = RoiAnswer("set_roi", 422, roi)
            /\ roi_file' = roi_file
       ELSE IF RoiRejected(roi)
       THEN /\ reply' = RoiAnswer("set_roi", 400, roi)
            /\ roi_file' = roi_file
       ELSE /\ reply' = RoiAnswer("set_roi", 200, roi)
            /\ roi_file' = save_roi_rel(roi, t)
    /\ obs' = Touched(roi_file')
    /\ UNCHANGED <<cfgVars, lockVars, running, cap, latest_jpeg, stream_ready,
                   last_cap_error, alert_status, CUR, last_alert_ts_by_masjid, clock,
                   opened, hpos, pc, loc, last_frame, sent, rd>>

\* GET /roi
get_roi ==
    /\ reply' = RoiAnswer("get_roi", 200, load_roi_rel)
    /\ UNCHANGED <<cfgVars, lockVars, roi_file, running, cap, latest_jpeg, stream_ready,
                   last_cap_error, alert_status, CUR, last_alert_ts_by_masjid, clock,
                   opened, hpos, pc, loc, obs, last_frame, sent, rd>>

\* DELETE /roi
clear_roi ==
    /\ roi_file' = Unlink(roi_file)
    /\ reply' = RoiAnswer("clear_roi", 200, NoRoi)
    /\ obs' = Touched(roi_file')
    /\ UNCHANGED <<cfgVars, lockVars, running, cap, latest_jpeg, stream_ready,
                   last_cap_error, alert_status, CUR, last_alert_ts_by_masjid, clock,
                   opened, hpos, pc, loc, last_frame, sent, rd>>

\* somebody else writes text into the file at instant t; with t the
\* mtime the file has, the content changes and the mtime does not
EditRoiFile(text, t) ==
    /\ t \in WriteTimes
    /\ roi_file' = [exists |-> TRUE, text |-> text, mtime |-> t]
    /\ obs' = Touched(roi_file')
    /\ UNCHANGED <<cfgVars, lockVars, apiVars, running, cap, latest_jpeg, stream_ready,
                   last_cap_error, alert_status, CUR, last_alert_ts_by_masjid, clock,
                   opened, hpos, pc, loc, last_frame, sent>>

(* ------------------------- standalone variant ------------------------- *)
\* src/projek_kotak_infaq/camera_server.py: the same globals running, cap
\* and latest_jpeg, the same debouncer settings, one chat, and the locals
\* last_status and last_alert_ts of capture_loop in loc.

\* tg_cooldown, below the instant the clock starts at: the first edge of
\* a session passes "now - 0.0 > TG_COOLDOWN_S", as with time.time()
TG_COOLDOWN_S == Cooldown - 1

soloRest == <<cfgVars, lockVars, roi_file, apiVars, stream_ready, last_cap_error,
              alert_status, CUR, last_alert_ts_by_masjid, hpos, obs, last_frame>>

\* POST /camera/start
start(launches) ==
    /\ IF running
       THEN UNCHANGED <<running, pc, loc>>
       ELSE /\ running' = TRUE
            /\ \E w \in Workers :
                  /\ pc[w] = "idle"
                  /\ \A v \in Workers : pc[v] = "idle" => w <= v
                  /\ w <= launches
                  /\ pc' = [pc EXCEPT ![w] = "start"]
                  /\ loc' = [loc EXCEPT ![w] = InitLoc]
    /\ UNCHANGED <<soloRest, cap, latest_jpeg, clock, opened, sent>>

\* POST /camera/stop
stop ==
    /\ running' = FALSE
    /\ UNCHANGED <<soloRest, cap, latest_jpeg, clock, opened, sent, pc, loc>>

\* capture_loop up to its loop: _ensure_model with outcome m, the camera
\* opened with outcome o, the locals initialised (the ROI read once here
\* only draws a rectangle)
solo_setup(w, m, o) ==
    /\ pc[w] = "start"
    /\ IF m = "fail"
       THEN /\ running' = FALSE
            /\ pc' = [pc EXCEPT ![w] = "done"]
            /\ UNCHANGED <<cap, opened>>
       ELSE IF o = "fail"
       THEN /\ cap' = NewHandle
            /\ running' = FALSE
            /\ pc' = [pc EXCEPT ![w] = "done"]
            /\ UNCHANGED opened
       ELSE /\ cap' = NewHandle
            /\ opened' = opened \cup {NewHandle}
            /\ pc' = [pc EXCEPT ![w] = "top"]
            /\ UNCHANGED running
    /\ UNCHANGED <<soloRest, latest_jpeg, clock, sent, loc>>

\* "while running", and "if cap: cap.release()" behind the loop
solo_while(w) ==
    /\ pc[w] = "top"
    /\ IF running
       THEN /\ pc' = [pc EXCEPT ![w] = "read"]
            /\ UNCHANGED opened
       ELSE /\ pc' = [pc EXCEPT ![w] = "done"]
            /\ opened' = Release(cap, opened)
    /\ UNCHANGED <<soloRest, running, cap, latest_jpeg, clock, sent, loc>>

\* one iteration: the read answers r, the detector d (an exception of
\* the detector counts as no detection), the transport res
solo_frame(w, r, d, res) ==
    LET L == loc[w]
        present_raw == present_raw_detector(d)
        ms == missing_streak_of(L.missing_streak, present_raw)
        present == present_of(present_raw, ms)
        h == PushSample(L.absent_hist, IF present THEN 0 ELSE 1)
        status == status_of(h, present)
        edge == TG_TOKEN /\ status = "ALERT" /\ L.last_status # "ALERT"
        passes == edge /\ clock - L.last_alert_ts > TG_COOLDOWN_S
    IN
    /\ pc[w] = "read"
    /\ pc' = [pc EXCEPT ![w] = "top"]
    /\ IF r = "fail" \/ cap \notin opened
       THEN UNCHANGED <<loc, sent, latest_jpeg>>
       ELSE /\ L.counter < MaxFrames
            /\ loc' = [loc EXCEPT ![w].counter = L.counter + 1,
                                  ![w].missing_streak = ms,
                                  ![w].absent_hist = h,
                                  ![w].last_status = status,
                                  ![w].last_alert_ts = IF passes THEN clock ELSE @]
            /\ sent' = IF passes /\ res = "ok"
                       THEN Append(sent, [mid |-> 0, ts |-> clock])
                       ELSE sent
            /\ latest_jpeg' = <<w, L.counter + 1>>
    /\ UNCHANGED <<soloRest, running, cap, clock, opened>>

(* --------------------------- specifications --------------------------- *)
WorkerStep(E, w) ==
    \/ \E m \in E.model : LoopEnter(w, m)
    \/ \E o \in E.open : OpenFirst(w, o)
    \/ \E r \in E.read : FirstRead(w, r)
    \/ \E o \in E.open : ReopenFirst(w, o)
    \/ \E r \in E.read : FirstReadRetry(w, r)
    \/ LoopTop(w)
    \/ CaptureReadNone(w)
    \/ \E r \in E.read, o \in E.open : CaptureReadFails(w, r, o)
    \/ \E r \in E.read, d \in E.det : CaptureReadFrame(w, r, d)

NextWith(E) ==
    \/ \E p \in E.params : start_camera(p, E.launches)
    \/ stop_camera
    \/ \E w \in Workers : WorkerStep(E, w)

Cfg(yolo, token, window, grace, cooldown) ==
    [yolo |-> yolo, token |-> token, window |-> window, grace |-> grace,
     masjid |-> (1 :> [tg_chat_id |-> "chat", tg_cooldown |-> cooldown]
                 @@ 2 :> [tg_chat_id |-> "", tg_cooldown |-> cooldown])]

Params(source, path, loop_video, camera_id) ==
    [source |-> source, path |-> path, loop_video |-> loop_video,
     camera_id |-> camera_id]

\* Session life cycle: any interleaving of start, stop and the steps of
\* the workers, on an unreliable device, without a detector.
LifeEnv == [params |-> {Params("webcam", "", FALSE, 0)},
            launches |-> MaxWorkers,
            model |-> {"ok"}, open |-> {"ok", "fail"}, read |-> {"ok"},
            det |-> {"miss"}, send |-> {"ok"}]
Init == InitWith({Cfg(FALSE, FALSE, 1, 0, Cooldown)})
Next == NextWith(LifeEnv)
Spec == Init /\ [][Next]_vars

\* Recovery of one session: every failure the worker can meet.
RecoverEnv == [params |-> {Params("webcam", "", FALSE, 1),
                           Params("video", "file", TRUE, 1),
                           Params("video", "file", FALSE, 1)},
               launches |-> SoloLaunches,
               model |-> {"ok", "fail"}, open |-> {"ok", "fail"},
               read |-> {"ok", "fail"}, det |-> {"hit", "miss", "raise"},
               send |-> {"ok", "fail", "raise"}]
InitRecover == InitWith({Cfg(TRUE, TRUE, 1, 0, Cooldown)})
NextRecover ==
    \/ NextWith(RecoverEnv)
    \/ \E w \in Workers, res \in RecoverEnv.send : Transport(w, res)
SpecRecover == InitRecover /\ [][NextRecover]_vars

\* The same session when every blocking call of the worker returns: the
\* thread is scheduled, and a read, an open and a transport call answer.
WorkerRuns(w) ==
    \/ WorkerStep(RecoverEnv, w)
    \/ \E res \in RecoverEnv.send : Transport(w, res)
SpecRecoverFair == SpecRecover /\ \A w \in Workers : WF_vars(WorkerRuns(w))

\* Notifications: sessions on a device that may refuse to open but
\* delivers every frame once open, with the detector, the transport and
\* the clock.
AlertEnv == [params |-> {Params("webcam", "", FALSE, 1)},
             launches |-> MaxWorkers,
             model |-> {"ok"}, open |-> {"ok", "fail"}, read |-> {"ok"},
             det |-> {"hit", "miss"}, send |-> {"ok", "fail", "raise"}]
InitAlert == InitWith({Cfg(TRUE, TRUE, 1, 0, Cooldown), Cfg(TRUE, FALSE, 1, 0, Cooldown)})
NextAlert ==
    \/ NextWith(AlertEnv)
    \/ \E w \in Workers, res \in AlertEnv.send : Transport(w, res)
    \/ Tick
SpecAlert == InitAlert /\ [][NextAlert]_vars

\* The debouncer with its default window and grace: one session on a
\* reliable webcam, the detector answering on every frame.
InitDebounce == InitWith({Cfg(TRUE, FALSE, DefaultWindow, DefaultGrace, Cooldown)})
NextDebounce ==
    \/ start_camera(Params("webcam", "", FALSE, 1), SoloLaunches)
    \/ \E w \in Workers : LoopEnter(w, "ok")
    \/ \E w \in Workers : OpenFirst(w, "ok")
    \/ \E w \in Workers : FirstRead(w, "ok")
    \/ \E w \in Workers : LoopTop(w)
    \/ \E w \in Workers, d \in {"hit", "miss"} : CaptureReadFrame(w, "ok", d)
SpecDebounce == InitDebounce /\ [][NextDebounce]_vars

\* One session without a detector (ENABLE_YOLO false) and with the
\* notification transport configured, on an unreliable device.
InitPlain == InitWith({Cfg(FALSE, TRUE, 1, 0, Cooldown)})
NextPlain == NextWith(RecoverEnv)
SpecPlain == InitPlain /\ [][NextPlain]_vars

\* The request boundary: start requests with and without a locator, stop
\* requests and stream readers, around sessions without a detector.
ApiEnv == [params |-> {Params("webcam", "", FALSE, 0), Params("video", "", TRUE, 0),
                       Params("ipcam", "", TRUE, 1)},
           launches |-> MaxWorkers,
           model |-> {"ok"}, open |-> {"ok", "fail"}, read |-> {"ok"},
           det |-> {"miss"}, send |-> {"ok"}]
NextApi ==
    \/ NextWith(ApiEnv)
    \/ \E r \in Readers : camera_stream(r)
    \/ \E r \in Readers : mjpeg_gen(r)
SpecApi == Init /\ [][NextApi]_vars

\* The latest-frame lock: sessions without a detector on a device that
\* may refuse to open, and stream readers whose client may be slow, each
\* "with lock:" block entered and left in steps of its own.
NextLock ==
    \/ start_camera(Params("webcam", "", FALSE, 0), MaxWorkers)
    \/ stop_camera
    \/ \E w \in Workers : LoopEnter(w, "ok")
    \/ \E w \in Workers, o \in {"ok", "fail"} : OpenFirst(w, o)
    \/ \E w \in Workers : FirstRead(w, "ok")
    \/ \E w \in Workers, o \in {"ok", "fail"} : ReopenFirst(w, o)
    \/ \E w \in Workers : FirstReadRetry(w, "ok")
    \/ \E w \in Workers : LoopTop(w)
    \/ \E w \in Workers : CaptureReadNone(w)
    \/ \E w \in Workers, o \in {"ok", "fail"} : CaptureReadFails(w, "ok", o)
    \/ \E w \in Workers : FrameProcessed(w, "miss")
    \/ \E w \in Workers : LockAcquire(w)
    \/ \E w \in Workers : StoreLocked(w)
    \/ \E w \in Workers : IterationSleep(w)
    \/ \E r \in Readers : camera_stream(r)
    \/ \E r \in Readers : ReaderAcquire(r)
    \/ \E r \in Readers : ReaderCopy(r)
    \/ \E r \in Readers : ReaderYield(r)
    \/ \E r \in Readers : ReaderSleep(r)
SpecLock == Init /\ [][NextLock]_vars

\* The ROI poll: one session on a reliable webcam, long enough to pass
\* two polls of the ROI file, while the file is saved, cleared, and
\* rewritten by others with or without a new mtime.
PollRects == {<<0, 0, RoiScale, RoiScale>>, <<0, 0, RoiScale - 1, RoiScale>>}
InitPoll == InitWith({Cfg(FALSE, FALSE, PollWindow, 0, Cooldown)})
NextPoll ==
    \/ start_camera(Params("webcam", "", FALSE, 0), SoloLaunches)
    \/ \E w \in Workers : LoopEnter(w, "ok")
    \/ \E w \in Workers : OpenFirst(w, "ok")
    \/ \E w \in Workers : FirstRead(w, "ok")
    \/ \E w \in Workers : LoopTop(w)
    \/ \E w \in Workers : CaptureReadFrame(w, "ok", "miss")
    \/ \E roi \in PollRects, t \in 1..MaxMtime : set_roi(roi, t)
    \/ clear_roi
    \/ \E roi \in PollRects, t \in 1..MaxMtime : EditRoiFile(model_dump_json(roi), t)
SpecPoll == InitPoll /\ [][NextPoll]_vars

\* The ROI store: rectangles posted with fields inside and outside the
\* unit interval, and files written by others that hold a rectangle, a
\* rectangle with a member missing, text that is not JSON, or nothing.
RoiInputs == {<<x, y, w, h>> : x \in 0..RoiScale, y \in 0..1,
                               w \in (-1)..(RoiScale + 1), h \in 0..RoiScale}
RoiTexts == {model_dump_json(roi) : roi \in RoiInputs}
                \cup {<<>>, << <<"?", 0>> >>,
                      SubSeq(model_dump_json(<<0, 0, 1, 1>>), 1, 3)}
NextRoi ==
    \/ \E roi \in RoiInputs : set_roi(roi, MaxMtime)
    \/ get_roi
    \/ clear_roi
    \/ \E text \in RoiTexts : EditRoiFile(text, MaxMtime)
SpecRoi == Init /\ [][NextRoi]_vars

\* Notification targets: one session on a reliable webcam with the
\* detector and the transport configured, started without a camera id,
\* for a camera whose tenant has a chat id (1) or an empty one (2), or
\* for a camera without a record (3).
NextTarget ==
    \/ \E c \in 0..3 : start_camera(Params("webcam", "", FALSE, c), SoloLaunches)
    \/ stop_camera
    \/ \E w \in Workers : LoopEnter(w, "ok")
    \/ \E w \in Workers : OpenFirst(w, "ok")
    \/ \E w \in Workers : FirstRead(w, "ok")
    \/ \E w \in Workers : LoopTop(w)
    \/ \E w \in Workers, d \in {"hit", "miss"} : CaptureReadFrame(w, "ok", d)
    \/ \E w \in Workers, res \in {"ok", "fail"} : Transport(w, res)
    \/ Tick
SpecTarget == InitRecover /\ [][NextTarget]_vars

\* The keys of the request boundary: requests with and without a valid
\* bearer credential, edge key and stream token, against a server that
\* has both keys configured or neither, around one session.
Creds == [bearer : BOOLEAN, edge_key : {"", "edge"}, token : {"", "tok"}]
WithKeys(c, edge_key, stream_token) ==
    [yolo |-> c.yolo, token |-> c.token, window |-> c.window, grace |-> c.grace,
     masjid |-> c.masjid, edge_key |-> edge_key, stream_token |-> stream_token]
InitAuth == InitWith({WithKeys(Cfg(FALSE, FALSE, 1, 0, Cooldown), "", ""),
                      WithKeys(Cfg(FALSE, FALSE, 1, 0, Cooldown), "edge", "tok")})
NextAuth ==
    \/ \E q \in Creds :
          post_camera_start(q, Params("webcam", "", FALSE, 0), SoloLaunches)
    \/ \E q \in Creds : post_camera_stop(q)
    \/ \E q \in Creds, r \in Readers : get_camera_stream(q, r)
    \/ \E r \in Readers : mjpeg_gen(r)
    \/ \E w \in Workers : LoopEnter(w, "ok")
    \/ \E w \in Workers : OpenFirst(w, "ok")
    \/ \E w \in Workers : FirstRead(w, "ok")
    \/ \E w \in Workers : LoopTop(w)
    \/ \E w \in Workers : CaptureReadFrame(w, "ok", "miss")
SpecAuth == InitAuth /\ [][NextAuth]_vars

\* The first steps of one session under every build: capture switched
\* off, OpenCV or numpy missing, or everything present.
WithBuild(c, capture, cv, numpy) ==
    [yolo |-> c.yolo, token |-> c.token, window |-> c.window, grace |-> c.grace,
     masjid |-> c.masjid, capture |-> capture, cv2 |-> cv, np |-> numpy]
InitSetup == InitWith({WithBuild(Cfg(TRUE, TRUE, 1, 0, Cooldown), capture, cv, numpy) :
                           capture \in BOOLEAN, cv \in BOOLEAN, numpy \in BOOLEAN})
SpecSetup == InitSetup /\ [][NextRecover]_vars

\* The debouncer across a restart: a first session that is stopped within
\* its first frames and has ended before the next start request, then a
\* session that runs on, the detector answering on every frame.
StartAfterExit ==
    /\ \A w \in Workers : ~Alive(w)
    /\ start_camera(Params("webcam", "", FALSE, 1), MaxWorkers)
StopFirstSession ==
    /\ Alive(1) /\ loc[1].counter < RestartFrames
    /\ stop_camera
NextRestart ==
    \/ StartAfterExit
    \/ StopFirstSession
    \/ \E w \in Workers : LoopEnter(w, "ok")
    \/ \E w \in Workers : OpenFirst(w, "ok")
    \/ \E w \in Workers : FirstRead(w, "ok")
    \/ \E w \in Workers : LoopTop(w)
    \/ \E w \in Workers, d \in {"hit", "miss"} : CaptureReadFrame(w, "ok", d)
SpecRestart == InitDebounce /\ [][NextRestart]_vars

\* The standalone server: any interleaving of start, stop, the steps of
\* its workers and the clock.
InitSolo == InitWith({Cfg(TRUE, TRUE, 1, 0, Cooldown)})
NextSolo ==
    \/ start(MaxWorkers)
    \/ stop
    \/ \E w \in Workers, m \in {"ok", "fail"}, o \in {"ok", "fail"} : solo_setup(w, m, o)
    \/ \E w \in Workers : solo_while(w)
    \/ \E w \in Workers, r \in {"ok", "fail"}, d \in {"hit", "miss", "raise"},
          res \in {"ok", "fail"} : solo_frame(w, r, d, res)
    \/ Tick
SpecSolo == InitSolo /\ [][NextSolo]_vars

(* ------------------------------- claims ------------------------------- *)
\* the invariants of an ROI: fields in [0,1], w > 0, h > 0, x+w <= 1, y+h <= 1
ValidRect(roi) ==
    /\ \A k \in 1..4 : 0 <= roi[k] /\ roi[k] <= RoiScale
    /\ roi[3] > 0 /\ roi[4] > 0
    /\ roi[1] + roi[3] <= RoiScale /\ roi[2] + roi[4] <= RoiScale

Looping(w) == loc[w].source = "video" /\ loc[w].loop_video
Abs(x) == IF x < 0 THEN -x ELSE x

\* C1: at most one capture worker is alive at any time, for every
\* interleaving of start requests, stop requests and worker steps.
C1_AtMostOneWorker == Cardinality({w \in Workers : Alive(w)}) <= 1

\* C2: no two successfully sent notifications for the same tenant with
\* cooldown > 0 have dispatch timestamps closer together than the cooldown.
C2_CooldownSpacing ==
    \A i, j \in 1..Len(sent) :
        (i < j /\ sent[i].mid = sent[j].mid /\ masjid[sent[i].mid].tg_cooldown > 0)
        => Abs(sent[i].ts - sent[j].ts) >= masjid[sent[i].mid].tg_cooldown

\* C3 as stated: a processed frame makes a dispatch attempt exactly when
\* its status is ALERT and the status of the frame processed before it was
\* not ALERT (one attempt per crossing, none on the other frames of a run).
C3_AttemptOnEveryCrossing ==
    last_frame.attempt <=> (last_frame.status = "ALERT" /\ last_frame.prev # "ALERT")

\* C3 amended: a processed frame makes a dispatch attempt exactly when
\* TG_TOKEN is set, its status is ALERT and the status of the frame
\* processed before it was not ALERT.
C3_AttemptOnCrossingWithToken ==
    last_frame.attempt <=>
        (TG_TOKEN /\ last_frame.status = "ALERT" /\ last_frame.prev # "ALERT")

\* C3 witness: after a delivered notification the status dropped and
\* crossed into ALERT again, and that frame made an attempt.
C3_SecondCrossing ==
    /\ sent # <<>>
    /\ last_frame.attempt
    /\ last_frame.prev = "NORMAL"

\* C4: the cooldown entry of a tenant changes only in the step in which a
\* transport call of a worker returns success, and then to the dispatch
\* time of that call; a call starts only on a frame whose predecessor was
\* not ALERT, so the ALERT frames that follow a failed send do not retry.
C4_LastSentOnlyOnSuccess ==
    [][ /\ \A m \in DOMAIN masjid :
              last_alert_ts_by_masjid'[m] # last_alert_ts_by_masjid[m]
              => /\ Len(sent') = Len(sent) + 1
                 /\ sent'[Len(sent')] = [mid |-> m, ts |-> last_alert_ts_by_masjid'[m]]
                 /\ \E w \in Workers :
                       /\ pc[w] = "tx" /\ pc'[w] = "top"
                       /\ obs'[w].tx = "ok"
                       /\ loc[w].now = last_alert_ts_by_masjid'[m]
        /\ \A w \in Workers :
              (pc[w] = "tx" /\ pc'[w] # "tx" /\ obs'[w].tx = "fail")
              => /\ last_alert_ts_by_masjid' = last_alert_ts_by_masjid
                 /\ pc'[w] = "top"
        /\ \A w \in Workers :
              (pc[w] # "tx" /\ pc'[w] = "tx")
              => last_frame'.w = w /\ last_frame'.prev # "ALERT"
      ]_vars

\* C4 witness: a send failed, the table still has no entry, and the next
\* frame of the run (ALERT again) was processed without an attempt.
C4_FailedSendNotRetried ==
    \E w \in Workers :
        /\ obs[w].tx = "fail"
        /\ pc[w] = "top"
        /\ last_alert_ts_by_masjid[1] = 0
        /\ last_frame.w = w
        /\ last_frame.status = "ALERT" /\ last_frame.prev = "ALERT"
        /\ ~last_frame.attempt

\* C5: every failure inside the worker is contained; while the running
\* flag is true a worker is alive (no worker has terminated with the flag
\* still set).
C5_FailuresContained == running => \E w \in Workers : Alive(w)

\* C6: a worker whose source is not a looping file closes or reopens the
\* capture handle in a failed read exactly when that read is the 15th
\* failure in a row (counted from its last good read or reconnect).
C6_ReopenAtFifteenth ==
    [][ \A w \in Workers :
            (pc[w] = "read" /\ pc'[w] = "top" /\ ~Looping(w))
            => ((cap' # cap \/ opened' # opened)
                <=> (obs'[w].lastev # "ok" /\ obs'[w].nfail = 15))
      ]_vars

\* C6 witness: the 15th failure in a row led to a reconnect.
C6_Reconnected ==
    \E w \in Workers :
        /\ ~Looping(w)
        /\ obs[w].lastev = "reopen_ok" /\ obs[w].nfail = 15
        /\ cap \in opened

\* C7: after a failed reconnect the worker stays alive while the run flag
\* is set: it has either not left, or left because of a stop.
C7_RecoveringStaysAlive ==
    \A w \in Workers : obs[w].reopen_failed => obs[w].exit \in {"none", "stopped"}

\* C8: for a looping video, a failed read never releases or replaces the
\* handle; the second failure in a row seeks it to position 0 and resets
\* the fail streak, the first leaves the position alone.
C8_LoopRewinds ==
    [][ \A w \in Workers :
            (/\ pc[w] = "read" /\ pc'[w] = "top" /\ Looping(w)
             /\ loc'[w].counter = loc[w].counter)
            => /\ cap' = cap /\ opened' = opened
               /\ obs'[w].nfail \in {1, 2}
               /\ obs'[w].nfail = 2 => (hpos' = 0 /\ loc'[w].fail_read_streak = 0)
               /\ obs'[w].nfail = 1 => (hpos' = hpos /\ loc'[w].fail_read_streak = 1)
      ]_vars

\* C8 witness: a looping video reached its end and was rewound on the
\* second failed read, on the handle it had.
C8_Rewound ==
    \E w \in Workers :
        /\ Looping(w)
        /\ obs[w].lastev = "rewind" /\ obs[w].nfail = 2
        /\ loc[w].counter >= 1
        /\ hpos = 0 /\ cap \in opened

\* the ways the setup of a session can go: first open, first read, and at
\* most one release, reopen and second read
SetupRuns ==
    { <<"open_fail">>,
      <<"open_ok", "read_ok">>,
      <<"open_ok", "read_fail", "release", "open_fail">>,
      <<"open_ok", "read_fail", "release", "open_ok", "read_ok">>,
      <<"open_ok", "read_fail", "release", "open_ok", "read_fail">> }
SetupFailed ==
    { <<"open_ok", "read_fail", "release", "open_fail">>,
      <<"open_ok", "read_fail", "release", "open_ok", "read_fail">> }
IsPrefix(s, t) == Len(s) <= Len(t) /\ SubSeq(t, 1, Len(s)) = s

\* C9: after a failed first read the worker does one close-and-reopen and
\* one further read; if the reopen or that read fails the session has
\* ended without entering the loop and without publishing a frame.
C9_FirstFrameRetry ==
    \A w \in Workers :
        /\ \E t \in SetupRuns : IsPrefix(obs[w].setup, t)
        /\ obs[w].setup \in SetupFailed
           => /\ pc[w] = "done"
              /\ loc[w].counter = 0
              /\ ~obs[w].published

\* C9 witness: the second first-frame read failed and the session ended.
C9_GaveUpAfterRetry ==
    \E w \in Workers :
        /\ obs[w].setup = <<"open_ok", "read_fail", "release", "open_ok", "read_fail">>
        /\ pc[w] = "done" /\ ~running /\ opened = {}

\* C10: every capture handle that is open is the one cap refers to, and a
\* worker that owns it is alive.
C10_HandlesReleased ==
    \A h \in opened : h = cap /\ \E w \in Workers : Alive(w)

\* C11: if from some point on the run flag stays cleared (a stop that no
\* start follows), then from some point on every worker is out of its
\* loop, the handle cap refers to is released and stream_ready is false.
C11_StopReachesWorker ==
    <>[](~running) => <>[](/\ \A w \in Workers : ~Alive(w)
                           /\ cap \notin opened
                           /\ ~stream_ready)

\* C11 witness: a worker that had published frames saw the cleared flag,
\* left through the loop test and released its handle.
C11_StoppedAndReleased ==
    \E w \in Workers :
        /\ obs[w].exit = "stopped" /\ obs[w].published
        /\ reply.op = "stop"
        /\ cap # 0 /\ opened = {} /\ ~stream_ready /\ ~running

\* worker w has just processed a frame in this step
Processed(w) == loc'[w].counter = loc[w].counter + 1 /\ pc'[w] # "done"
Last(q) == q[Len(q)]
AllMiss(D) == \A i \in 1..Len(D) : D[i] = "miss"
EndsWith(D, t) == Len(D) >= Len(t) /\ SubSeq(D, Len(D) - Len(t) + 1, Len(D)) = t
Rank(st) == CASE st = "NORMAL" -> 0 [] st = "WARN" -> 1 [] OTHER -> 2

\* the sample pushed for a frame is absent (1) iff the detections of that
\* frame and of the PRESENT_GRACE frames before it were all empty
GraceRule(w) ==
    Last(loc'[w].absent_hist) = 1
    <=> (Len(obs'[w].dets) = PRESENT_GRACE + 1 /\ AllMiss(obs'[w].dets))

\* C12 as stated (PRESENT_GRACE = 10): the sample of a processed frame is
\* absent iff that frame and the 10 before it had empty detections, and an
\* empty frame between two frames with detections pushed a present sample
\* and left the status as it was before it.
C12_SingleMissKeepsStatus ==
    [][ \A w \in Workers :
            Processed(w)
            => /\ GraceRule(w)
               /\ (Last(obs'[w].dets) = "hit" /\ EndsWith(obs[w].dets, <<"hit", "miss">>))
                  => /\ Last(loc[w].absent_hist) = 0
                     /\ last_frame.status = last_frame.prev
      ]_vars

\* C12 amended: ... and an empty frame between two frames with detections
\* pushed a present sample and did not raise the status.
C12_SingleMissNeverRaises ==
    [][ \A w \in Workers :
            Processed(w)
            => /\ GraceRule(w)
               /\ (Last(obs'[w].dets) = "hit" /\ EndsWith(obs[w].dets, <<"hit", "miss">>))
                  => /\ Last(loc[w].absent_hist) = 0
                     /\ Rank(last_frame.status) <= Rank(last_frame.prev)
      ]_vars

\* C12 witness: after a stretch of absent samples, a single empty frame
\* came between two frames with detections and was counted as present.
C12_SandwichedMiss ==
    \E w \in Workers :
        /\ PRESENT_GRACE = DefaultGrace
        /\ EndsWith(obs[w].dets, <<"hit", "miss", "hit">>)
        /\ SumSeq(loc[w].absent_hist) >= 1
        /\ EndsWith(loc[w].absent_hist, <<0, 0, 0>>)

\* absent samples in a window
Absent(h) == Cardinality({i \in 1..Len(h) : h[i] = 1})

\* C13: after every processed frame the status is determined by the
\* window: ALERT iff the share of absent samples is >= 0.70, WARN iff it
\* is >= 0.40 and < 0.70, NORMAL otherwise; a full window of 24 gives
\* ALERT iff it holds 17 or more absent samples.
C13_StatusFromWindow ==
    last_frame.w # 0 =>
        LET h == loc[last_frame.w].absent_hist
            st == last_frame.status
        IN /\ Len(h) >= 1 /\ Len(h) <= MISSING_WINDOW
           /\ st = "ALERT" <=> 10 * Absent(h) >= 7 * Len(h)
           /\ st = "WARN" <=> (10 * Absent(h) >= 4 * Len(h) /\ 10 * Absent(h) < 7 * Len(h))
           /\ st = "NORMAL" <=> 10 * Absent(h) < 4 * Len(h)
           /\ Len(h) = 24 => (st = "ALERT" <=> Absent(h) >= 17)

\* C13 witness: a full window of 24 samples with exactly 17 absent, ALERT.
C13_SeventeenOfTwentyFour ==
    /\ last_frame.w # 0
    /\ Len(loc[last_frame.w].absent_hist) = 24
    /\ Absent(loc[last_frame.w].absent_hist) = 17
    /\ last_frame.status = "ALERT" /\ last_frame.prev = "WARN"

\* C14: the alert flag camera_status reports is "present" or "missing",
\* and it is "missing" iff the status of the last processed frame is
\* ALERT; WARN is reported as "present".
C14_BinaryAlertFlag ==
    /\ camera_status.alert_status \in {"present", "missing"}
    /\ camera_status.alert_status = "missing" <=> last_frame.status = "ALERT"
    /\ last_frame.status = "WARN" => camera_status.alert_status = "present"

\* C14 witness: the status rose from NORMAL to WARN and the flag is still
\* "present".
C14_WarnReportedPresent ==
    /\ last_frame.status = "WARN" /\ last_frame.prev = "NORMAL"
    /\ camera_status.alert_status = "present"

\* C15: without a detector every processed frame counts as present: the
\* window holds only 0, the status is NORMAL, the flag is "present", no
\* notification is attempted, and every processed frame is published (it
\* is the frame its session stored last, and the buffer holds such a frame).
C15_NoDetectorAlwaysPresent ==
    ~ENABLE_YOLO =>
        /\ last_frame.status = "NORMAL" /\ ~last_frame.attempt
        /\ alert_status = "present"
        /\ sent = <<>>
        /\ \A w \in Workers :
              /\ \A i \in 1..Len(loc[w].absent_hist) : loc[w].absent_hist[i] = 0
              /\ pc[w] # "tx" /\ obs[w].tx = "none"
              /\ loc[w].counter >= 1
                 => (obs[w].published /\ obs[w].lastpub = loc[w].counter)
        /\ (\E w \in Workers : loc[w].counter >= 1)
           => \E w \in Workers : /\ latest_jpeg \in {<<w, n>> : n \in 1..loc[w].counter}
                                  /\ latest_jpeg[2] = obs[w].lastpub

\* C15 witness: with the transport configured and no detector, a session
\* processed and published frames whose detections were empty.
C15_PlainSessionPublished ==
    \E w \in Workers :
        /\ ~ENABLE_YOLO /\ TG_TOKEN
        /\ loc[w].counter = MaxFrames
        /\ latest_jpeg = <<w, MaxFrames>>
        /\ obs[w].dets = <<"miss">>
        /\ loc[w].absent_hist = <<0>>

\* the chunks of one session in q carry non-decreasing frame numbers
InCaptureOrder(q) ==
    \A i, j \in 1..Len(q) : (i < j /\ q[i][1] = q[j][1]) => q[i][2] <= q[j][2]

\* C16: a session stores its frames in the buffer in capture order (each
\* stored frame is the one just captured, later than every frame the
\* session stored before); a reader emits exactly the value it finds in
\* the buffer, and what it has emitted is in capture order for each session.
C16_ReadersSeeCaptureOrder ==
    [][ /\ latest_jpeg' # latest_jpeg
           => \E w \in Workers :
                 /\ latest_jpeg' = <<w, loc'[w].counter>>
                 /\ loc'[w].counter > obs[w].lastpub
                 /\ obs'[w].lastpub = loc'[w].counter
        /\ \A r \in Readers :
              /\ rd'[r].out # rd[r].out
                 => /\ latest_jpeg # <<>>
                    /\ rd'[r].out = Append(rd[r].out, latest_jpeg)
                    /\ latest_jpeg' = latest_jpeg
              /\ InCaptureOrder(rd'[r].out)
      ]_vars

\* C16 witness: a reader repeated a frame and skipped one.
C16_RepeatedAndSkipped ==
    \E r \in Readers, w \in Workers :
        rd[r].out = << <<w, 1>>, <<w, 1>>, <<w, 3>> >>

\* this step answered a stream request
StreamAnswered == reply' # reply /\ reply'.op = "stream"

\* C17 as stated: a stream request made while a session is running and
\* before a frame is published is accepted without error.
C17_EarlyStreamAccepted ==
    [][ (StreamAnswered /\ running /\ ~stream_ready) => reply'.code = 200 ]_vars

\* C17 amended: a stream request made while a session is running and
\* stream_ready is false is answered 425 and starts no reader; a reader
\* starts only while running and stream_ready hold, the buffer holds a
\* frame then, and every chunk a reader emits is a published frame.
C17_EarlyStreamRefused ==
    [][ /\ (StreamAnswered /\ running /\ ~stream_ready)
           => (reply'.code = 425 /\ rd' = rd)
        /\ \A r \in Readers :
              /\ (rd[r].pc = "off" /\ rd'[r].pc = "on")
                 => /\ running /\ stream_ready /\ latest_jpeg # <<>>
                    /\ reply' = Answer("stream", 200, NoArgs)
              /\ \A i \in 1..Len(rd'[r].out) : rd'[r].out[i] # <<>>
      ]_vars

\* C17 witness: a request was refused with 425 during a session that had
\* published nothing, and the reader is not connected.
C17_Refused425 ==
    /\ reply = Answer("stream", 425, NoArgs)
    /\ running /\ ~stream_ready /\ latest_jpeg = <<>>
    /\ \E w \in Workers : Alive(w)
    /\ \A r \in Readers : rd[r].pc = "off"

\* the worker of the session launched last
Latest(w) == pc[w] # "idle" /\ \A v \in Workers : v > w => pc[v] = "idle"

\* C18: from the start of a session until its worker publishes its first
\* frame the buffer is absent and stream_ready is false, and no reader
\* emits a chunk (stated for a session whose predecessors have all ended,
\* and without the part about the last error).
C18_StartResetsBroadcaster ==
    [][ \A w \in Workers :
            (/\ Latest(w) /\ Alive(w) /\ obs[w].lastpub = 0
             /\ \A v \in Workers : v # w => ~Alive(v))
            => /\ latest_jpeg = <<>>
               /\ ~stream_ready
               /\ \A r \in Readers : rd'[r].out = rd[r].out
      ]_vars

\* this step answered a start request
StartAnswered == reply' # reply /\ reply'.op = "start"

\* what a request that does nothing leaves alone: everything but the answer
NothingStarted ==
    UNCHANGED <<cfgVars, lockVars, roi_file, running, cap, latest_jpeg, stream_ready, last_cap_error,
                alert_status, CUR, last_alert_ts_by_masjid, clock, opened, hpos,
                pc, loc, obs, last_frame, sent, rd>>

NoLocator(p) == p.source \in {"video", "ipcam"} /\ p.path = ""

\* C19: while the running flag is true no worker is launched and the
\* stored source configuration does not change; a start request answered
\* then returns success and changes nothing, whatever its parameters.
C19_StartWhileRunningIsNoOp ==
    [][ running
        => /\ \A w \in Workers : pc[w] = "idle" => pc'[w] = "idle"
           /\ CUR' = CUR
           /\ StartAnswered => (reply'.code = 200 /\ NothingStarted)
      ]_vars

\* C19 witness: during a session that is streaming, a start request with
\* other parameters (and no locator) was answered with success, and the
\* stored configuration is still that of the session.
C19_SecondStartIgnored ==
    /\ running /\ stream_ready
    /\ reply.op = "start" /\ reply.code = 200
    /\ NoLocator(reply.arg)
    /\ CUR = Params("webcam", "", FALSE, 0)
    /\ Cardinality({w \in Workers : pc[w] # "idle"}) = 1

\* C20: a start request for video or ipcam without a path, answered while
\* no session is running, gets an error and starts nothing; no worker and
\* no stored configuration ever has such a source without a locator.
C20_MissingPathRejected ==
    [][ /\ (StartAnswered /\ ~running /\ NoLocator(reply'.arg))
           => (reply'.code = 400 /\ ~running' /\ NothingStarted)
        /\ ~NoLocator(CUR')
        /\ \A w \in Workers : pc'[w] # "idle" => ~NoLocator(loc'[w])
      ]_vars

\* C20 witness: after a session ended, an ipcam start request without a
\* path was answered 400 and nothing runs.
C20_Rejected400 ==
    /\ reply.op = "start" /\ reply.code = 400
    /\ reply.arg.source = "ipcam" /\ reply.arg.path = ""
    /\ ~running
    /\ CUR = Params("webcam", "", FALSE, 0)
    /\ \A w \in Workers : ~Alive(w)
    /\ \E w \in Workers : pc[w] = "done"

\* C21: the latest-frame lock is held only inside a "with lock:" block:
\* by a worker between entering the block and the end of its stores (never
\* during the read, the detector, the notification, the reopen or a
\* sleep), or by a reader while it copies the reference (never while it
\* emits a chunk or sleeps); so a worker that wants the lock while every
\* reader is emitting or sleeping and no other worker stores finds it free.
C21_LockOnlyAroundStore ==
    /\ \A w \in Workers : lock = WorkerHolds(w) => wl[w] = "in" /\ pc[w] = "store"
    /\ \A r \in Readers : lock = ReaderHolds(r) => rl[r].at = "in"
    /\ \A w \in Workers :
          (/\ wl[w] = "want"
           /\ \A r \in Readers : rl[r].at # "in"
           /\ \A v \in Workers : wl[v] # "in") => lock = NoHolder

\* a worker stores a frame while a reader is still handing a chunk of an
\* earlier frame to its client
C21_StoreWhileClientSlow ==
    \E w \in Workers, r \in Readers :
        /\ lock = WorkerHolds(w)
        /\ rl[r].at = "emit"
        /\ rl[r].buf # <<>>

\* C22: inside the loop the ROI of a worker changes only in the step that
\* processes a frame whose count is a multiple of 30, and only if the
\* mtime of the ROI file at that poll differs from the recorded one; so
\* content rewritten under an unchanged mtime is adopted at no poll.
C22_RoiChangesOnlyAtPoll ==
    [][\A w \in Workers :
          (pc[w] = "read" /\ loc'[w].roi # loc[w].roi) =>
              /\ loc'[w].counter = loc[w].counter + 1
              /\ loc'[w].counter % RoiPollEvery = 0
              /\ RoiMtime # loc[w].roi_mtime]_vars

\* the second poll has passed and the worker still uses another ROI than
\* the file holds, because the file kept its mtime
C22_StaleAfterPoll ==
    \E w \in Workers :
        /\ pc[w] = "top"
        /\ loc[w].counter = 2 * RoiPollEvery
        /\ loc[w].roi # NoRoi
        /\ roi_rect_px # NoRoi
        /\ roi_rect_px # loc[w].roi
        /\ RoiMtime = loc[w].roi_mtime

ValidRects == {r \in RoiInputs : ValidRect(r)}

\* C23: for every rectangle that satisfies the ROI invariants, set_roi
\* answers 200 and load_roi_rel then returns the same x, y, w, h.
C23_SaveLoadRoundTrip ==
    [][\A roi \in ValidRects :
          set_roi(roi, MaxMtime) =>
              /\ reply'.code = 200
              /\ load_roi_rel' = roi]_vars

\* a rectangle that does not fill the frame has been saved over a file
\* that held something else, and loads back
C23_SavedAndLoaded ==
    /\ reply.op = "set_roi" /\ reply.code = 200
    /\ reply.roi = <<1, 0, 1, RoiScale>>
    /\ load_roi_rel = reply.roi

\* C24: a rectangle with w <= 0, h <= 0, x+w > 1 or y+h > 1 is answered
\* with a validation error and the ROI file is left exactly as it was.
C24_InvalidRectRejected ==
    [][(/\ reply' # reply
        /\ reply'.op = "set_roi"
        /\ ~ValidRect(reply'.roi)) =>
            /\ reply'.code \in {400, 422}
            /\ roi_file' = roi_file]_vars

\* a rectangle that leaves the frame was refused while an ROI is stored
C24_RejectedOverStored ==
    /\ reply.op = "set_roi" /\ reply.code = 400
    /\ reply.roi = <<1, 0, RoiScale, 1>>
    /\ load_roi_rel # NoRoi

\* C25: whatever the ROI file holds, load_roi_rel returns absent or a
\* rectangle that satisfies the ROI invariants.
C25_LoadedRoiIsValid == load_roi_rel # NoRoi => ValidRect(load_roi_rel)

\* C26: clear_roi answers 200 whether or not an ROI is stored, afterwards
\* load_roi_rel returns absent, and clearing when nothing is stored
\* changes nothing (the second of two clears has no effect).
C26_ClearIsIdempotent ==
    [][clear_roi =>
          /\ reply'.code = 200
          /\ load_roi_rel' = NoRoi
          /\ (~roi_file.exists => roi_file' = roi_file)]_vars

\* a stored ROI has been cleared
C26_ClearedStoredRoi ==
    /\ reply.op = "clear_roi" /\ reply.code = 200
    /\ roi_file.mtime > 0
    /\ load_roi_rel = NoRoi

\* the camera has no notification target: no camera id, no record, or a
\* tenant with an empty chat id
Unresolvable(c) ==
    \/ c = 0
    \/ CameraMasjid(c) \notin DOMAIN masjid
    \/ masjid[CameraMasjid(c)].tg_chat_id = ""

\* C27: when a frame crosses into ALERT and the session's camera has no
\* notification target, the worker makes no transport call, the cooldown
\* table and the delivered notifications stay as they were, nothing is
\* raised, and the frame is published in the same iteration.
C27_NoTargetNoSend ==
    [][\A w \in Workers :
          (/\ pc[w] = "read"
           /\ loc'[w].counter = loc[w].counter + 1
           /\ last_frame'.attempt
           /\ Unresolvable(loc[w].camera_id)) =>
              /\ pc'[w] = "top"
              /\ obs'[w].tx = obs[w].tx
              /\ obs'[w].exit = "none"
              /\ last_alert_ts_by_masjid' = last_alert_ts_by_masjid
              /\ sent' = sent
              /\ latest_jpeg' = <<w, loc'[w].counter>>]_vars

\* the frame of an ALERT edge is in the buffer, for a camera without a
\* record, and no transport call was ever made
C27_EdgePublishedUnsent ==
    \E w \in Workers :
        /\ loc[w].camera_id = 3
        /\ last_frame.w = w /\ last_frame.attempt
        /\ pc[w] = "top"
        /\ latest_jpeg = <<w, loc[w].counter>>
        /\ obs[w].tx = "none"

\* C28: a start, stop or stream request without a valid bearer credential
\* takes no effect, whether or not the keys are configured: it does not
\* change the running flag, launches no worker and starts no generator.
C28_BearerRequired ==
    [][\A q \in Creds :
          ~q.bearer =>
              /\ post_camera_start(q, Params("webcam", "", FALSE, 0), SoloLaunches)
                     => (running' = running /\ pc' = pc)
              /\ post_camera_stop(q) => running' = running
              /\ \A r \in Readers : get_camera_stream(q, r) => rd' = rd]_vars

\* C29: the teardown of a worker acts on its own session only: when a
\* worker leaves while a worker launched after it is alive, the step does
\* not release the VideoCapture object the newer worker opened, does not
\* set stream_ready false, and, if the worker leaves by giving up, does
\* not clear the running flag.
C29_TeardownOwnSession ==
    [][\A v, w \in Workers :
          (v < w /\ Alive(v) /\ pc'[v] = "done" /\ Alive(w)) =>
              /\ (obs[w].mine \in opened => obs[w].mine \in opened')
              /\ (stream_ready => stream_ready')
              /\ (obs'[v].exit = "gave_up" /\ running => running')]_vars

\* C30: a failed read changes nothing in the presence pipeline: the
\* frame counter, absent_hist, missing_streak and the alert flag keep
\* their values, no notification is attempted and no frame is published;
\* so the alert flag cannot become "missing" in such a step.
C30_FailedReadLeavesPresence ==
    [][\A w \in Workers :
          (/\ pc[w] = "read" /\ pc'[w] = "top"
           /\ loc'[w].counter = loc[w].counter) =>
              /\ loc'[w].absent_hist = loc[w].absent_hist
              /\ loc'[w].missing_streak = loc[w].missing_streak
              /\ alert_status' = alert_status
              /\ last_frame' = last_frame
              /\ obs'[w].tx = obs[w].tx
              /\ last_alert_ts_by_masjid' = last_alert_ts_by_masjid
              /\ sent' = sent
              /\ latest_jpeg' = latest_jpeg
              /\ obs'[w].lastpub = obs[w].lastpub]_vars

\* reads fail after the box went missing: the flag stays "missing" and
\* the window keeps its sample
C30_FailedReadAfterAlert ==
    \E w \in Workers :
        /\ pc[w] = "top"
        /\ obs[w].lastev = "fail"
        /\ loc[w].fail_read_streak >= 2
        /\ loc[w].counter > 0
        /\ loc[w].absent_hist = <<1>>
        /\ alert_status = "missing"

\* C31: with window 24, grace 10 and the detector enabled, in the first
\* session and in one started after a stop, no processed frame before the
\* 27th of the session has status ALERT, and the 27th has it when every
\* frame of the session had empty detections.
C31_AlertNotBeforeFrame27 ==
    [][\A w \in Workers :
          (loc'[w].counter = loc[w].counter + 1 /\ pc'[w] # "done") =>
              /\ last_frame'.status = "ALERT" => loc'[w].counter >= 27
              /\ (loc'[w].counter = 27 /\ loc'[w].missing_streak = 27)
                     => last_frame'.status = "ALERT"]_vars

\* the session started after a stop reaches ALERT on its 27th frame
C31_SecondSessionAlertAt27 ==
    /\ obs[1].exit = "stopped"
    /\ loc[1].counter > 0
    /\ loc[2].counter = 27
    /\ loc[2].missing_streak = 27
    /\ last_frame.w = 2
    /\ last_frame.status = "ALERT"
    /\ last_frame.prev = "WARN"

\* C32: at the top of every iteration fail_read_streak is the number of
\* consecutive failed reads since the last successful read, rewind or
\* reopen attempt; it is 0 right after a successful read, and it lies in
\* 0..14, for a looping video in 0..1.
C32_FailStreakCounts ==
    \A w \in Workers :
        pc[w] = "top" =>
            /\ loc[w].fail_read_streak =
                   (IF obs[w].lastev = "fail" THEN obs[w].nfail ELSE 0)
            /\ obs[w].lastev = "ok" => loc[w].fail_read_streak = 0
            /\ loc[w].fail_read_streak \in 0..(FailReopen - 1)
            /\ Looping(w) => loc[w].fail_read_streak \in 0..(LoopRewind - 1)

\* fourteen reads in a row have failed after a frame was processed
C32_FourteenFailures ==
    \E w \in Workers :
        /\ pc[w] = "top"
        /\ loc[w].counter > 0
        /\ loc[w].fail_read_streak = 14
        /\ obs[w].nfail = 14

\* C33: for a looping video no failed read closes or reopens the capture
\* object or records a last error: the second failure in a row rewinds and
\* resets the streak, so the reconnect branch is never taken, however many
\* reads fail.
C33_LoopingNeverReopens ==
    [][\A w \in Workers :
          (/\ Looping(w)
           /\ pc[w] = "read" /\ pc'[w] = "top"
           /\ loc'[w].counter = loc[w].counter) =>
              /\ cap' = cap
              /\ opened' = opened
              /\ last_cap_error' = last_cap_error
              /\ obs'[w].lastev \in {"fail", "rewind"}
              /\ loc[w].fail_read_streak = 1 =>
                     (obs'[w].lastev = "rewind" /\ loc'[w].fail_read_streak = 0)]_vars

\* a looping video has been rewound on its second failure without a
\* single frame read in the loop: same capture object, no last error
C33_RewoundUnreadable ==
    \E w \in Workers :
        /\ Looping(w)
        /\ pc[w] = "top"
        /\ loc[w].counter = 0
        /\ obs[w].lastev = "rewind" /\ obs[w].nfail = LoopRewind
        /\ loc[w].fail_read_streak = 0
        /\ cap = obs[w].mine /\ cap \in opened
        /\ last_cap_error = NoError

\* C34: while the running flag is false a worker performs at most one
\* capture read, publishes at most one frame and makes at most one
\* dispatch attempt before it leaves.
C34_OneMoreIteration ==
    \A w \in Workers :
        /\ obs[w].late.reads <= 1
        /\ obs[w].late.frames <= 1
        /\ obs[w].late.alerts <= 1

\* C35: every step by which a worker gives up before the loop (library
\* missing, detector not loaded, source not opened, no first frame after
\* the reopen) leaves running false, a last error, stream_ready false and
\* the frame buffer as it was, the worker having published nothing, so
\* that the next start request does not find "already running".
C35_GiveUpLeavesIdle ==
    [][\A w \in Workers :
          (obs[w].exit # "gave_up" /\ obs'[w].exit = "gave_up") =>
              /\ running' = FALSE
              /\ ~AlreadyRunning'
              /\ last_cap_error' # NoError
              /\ stream_ready' = FALSE
              /\ latest_jpeg' = latest_jpeg
              /\ ~obs'[w].published]_vars

\* the second read of the first frame has failed and the worker is gone
C35_NoFirstFrameTwice ==
    \E w \in Workers :
        /\ obs[w].exit = "gave_up"
        /\ obs[w].setup = <<"open_ok", "read_fail", "release", "open_ok", "read_fail">>
        /\ ~running /\ ~stream_ready
        /\ last_cap_error # NoError
        /\ latest_jpeg = <<>>

\* C36: a worker inside its loop for which the mtime of the ROI file has
\* changed since it last compared it takes, at the next processed frame
\* whose count is a multiple of 30, the ROI the file then gives: none
\* when the file is gone.
C36_ChangeAdoptedAtNextPoll ==
    [][\A w \in Workers :
          (/\ Processed(w)
           /\ loc'[w].counter % RoiPollEvery = 0
           /\ obs[w].behind = "yes") =>
              /\ loc'[w].roi = roi_rect_px
              /\ (~roi_file.exists => loc'[w].roi = NoRoi)]_vars

\* C36 (amended): the same, when the mtime found at that frame differs from
\* the one the loop recorded; the loop then records the mtime it found.
C36_ChangeAdoptedIfMtimeDiffers ==
    [][\A w \in Workers :
          (/\ Processed(w)
           /\ loc'[w].counter % RoiPollEvery = 0
           /\ obs[w].behind = "yes"
           /\ (IF roi_file.exists THEN roi_file.mtime ELSE 0) # loc[w].roi_mtime) =>
              /\ loc'[w].roi = roi_rect_px
              /\ loc'[w].roi_mtime = (IF roi_file.exists THEN roi_file.mtime ELSE 0)
              /\ (~roi_file.exists => loc'[w].roi = NoRoi)]_vars

\* the ROI was deleted while the loop ran with one, and the loop has
\* dropped it at its first poll
C36_DeletedAndDropped ==
    \E w \in Workers :
        /\ pc[w] = "top"
        /\ loc[w].counter = RoiPollEvery
        /\ ~roi_file.exists
        /\ roi_file.mtime > 0
        /\ loc[w].roi = NoRoi
        /\ loc[w].roi_mtime = 0
        /\ obs[w].behind = "polled"

\* the worker launched by the most recent successful start, 0 before the
\* first
CurrentWorker ==
    IF \A w \in Workers : pc[w] = "idle" THEN 0
    ELSE CHOOSE w \in Workers : pc[w] # "idle" /\ \A v \in Workers : pc[v] # "idle" => v <= w

\* C37: whenever stream_ready is true the frame buffer holds a frame, and
\* that frame was published by the worker of the current session.
C37_ReadyMeansOwnFrame ==
    stream_ready =>
        /\ latest_jpeg # <<>>
        /\ latest_jpeg[1] = CurrentWorker

\* C38: a stop request changes the running flag and nothing else of the
\* session state, and the step by which the stopped worker leaves clears
\* stream_ready only: the alert flag, the frame buffer, the stored source
\* configuration and the cooldown table keep their values in both.
C38_StopKeepsSessionState ==
    [][/\ stop_camera =>
              /\ running' = FALSE
              /\ UNCHANGED <<alert_status, latest_jpeg, CUR, last_alert_ts_by_masjid,
                             stream_ready, last_cap_error, cap, opened>>
       /\ \A w \in Workers :
              (obs[w].exit = "none" /\ obs'[w].exit = "stopped") =>
                  /\ stream_ready' = FALSE
                  /\ UNCHANGED <<alert_status, latest_jpeg, CUR, last_alert_ts_by_masjid,
                                 running, last_cap_error>>]_vars

\* a session has been stopped and its worker has left while the alert
\* flag says missing: the status report shows running false, missing
C38_StoppedWhileMissing ==
    \E w \in Workers :
        /\ obs[w].exit = "stopped"
        /\ \A v \in Workers : ~Alive(v)
        /\ reply.op = "stop"
        /\ ~running /\ ~stream_ready
        /\ alert_status = "missing"
        /\ latest_jpeg # <<>>
        /\ CUR # NoArgs
        /\ \E m \in DOMAIN masjid : last_alert_ts_by_masjid[m] > 0

\* C39: every processed frame appends its one sample (1 when the box is
\* judged absent, else 0) to the absence window, and the oldest sample
\* leaves when the window was full; so after n processed frames the
\* window holds the samples of the last min(n, MISSING_WINDOW) frames in
\* arrival order, 24 at most.
C39_WindowSlides ==
    [][\A w \in Workers :
          Processed(w) =>
              LET h == loc[w].absent_hist
                  g == loc'[w].absent_hist
                  n == loc'[w].counter
                  absent == /\ Last(obs'[w].dets) # "hit"
                            /\ loc'[w].missing_streak > PRESENT_GRACE
                  sample == IF absent THEN 1 ELSE 0
              IN /\ Len(g) = (IF n < MISSING_WINDOW THEN n ELSE MISSING_WINDOW)
                 /\ Len(g) <= DefaultWindow
                 /\ g = (IF Len(h) < MISSING_WINDOW
                          THEN Append(h, sample)
                          ELSE Append(Tail(h), sample))]_vars

\* 28 frames without the box: the first ten fall under the grace, the
\* window of 24 has lost the four oldest samples
C39_FourEvicted ==
    \E w \in Workers :
        /\ loc[w].counter = DefaultWindow + 4
        /\ loc[w].absent_hist = [i \in 1..DefaultWindow |-> IF i <= 6 THEN 0 ELSE 1]

\* C40: in the standalone server no two notifications are sent closer
\* together than TG_COOLDOWN_S, whatever the starts, stops and ALERT
\* edges.
C40_SoloCooldownSpacing ==
    \A i, j \in 1..Len(sent) :
        i < j => Abs(sent[j].ts - sent[i].ts) >= TG_COOLDOWN_S

====
